---------------------------- MODULE Spec2Model ----------------------------
(***************************************************************************)
(* Streaming multi-protocol message framer of the my_parser repository.   *)
(*                                                                         *)
(* Three drafts of the framer are complete enough in the source tree to   *)
(* be run byte by byte, and each is modelled here as its own parse state: *)
(*   "mmp"  src/src/multi_protocol_parser.c  (dispatcher, SEMP/BT, NMEA,  *)
(*          u-blox and the RTCM preamble stub),                           *)
(*   "semp" src/my_parser/Message_Parser.c + src/my_parser/Parse_Custom.c *)
(*          (dispatcher with a one-entry parser table, custom/BT frames), *)
(*   "bt"   src/src/semp_parser.c (single-protocol BT parser).            *)
(* A behaviour picks one draft, one callback configuration and one input  *)
(* stream in Init and then feeds the stream one byte per step.            *)
(*                                                                         *)
(* Representation: a byte is an integer 0..255; a uint32_t is the tuple   *)
(* of its four bytes, most significant first, as the hexadecimal literal  *)
(* is written in the C source (0x77073096 is <<\h77,\h07,\h30,\h96>>).    *)
(***************************************************************************)
EXTENDS Integers, Sequences, FiniteSets, TLC

---------------------------------------------------------------------------
(* Bit operations of the C code on uint8_t / uint32_t values.              *)

RECURSIVE XorBits(_, _, _)
XorBits(a, b, n) ==
    IF n = 0 THEN 0
    ELSE ((a + b) % 2) + 2 * XorBits(a \div 2, b \div 2, n - 1)

Xor8(a, b) == XorBits(a, b, 8)

RECURSIVE OrBits(_, _, _)
OrBits(a, b, n) ==
    IF n = 0 THEN 0
    ELSE (IF (a % 2) + (b % 2) > 0 THEN 1 ELSE 0)
         + 2 * OrBits(a \div 2, b \div 2, n - 1)

Or8(a, b) == OrBits(a, b, 8)

Xor32(x, y) == [i \in 1..4 |-> Xor8(x[i], y[i])]

Shr8(x) == <<0, x[1], x[2], x[3]>>

LowByte(x) == x[4]

U32Zero == <<0, 0, 0, 0>>

U32Ones == <<\hFF, \hFF, \hFF, \hFF>>

\* data | 0x20
Or20(data) == IF (data \div 32) % 2 = 0 THEN data + 32 ELSE data

\* data & ~0x20
AndNot20(data) == IF (data \div 32) % 2 = 1 THEN data - 32 ELSE data

---------------------------------------------------------------------------
(* CRC-32 lookup table, identical in the three drafts.                     *)

mmp_crc32Table == <<
    <<\h00, \h00, \h00, \h00>>, <<\h77, \h07, \h30, \h96>>, <<\hEE, \h0E, \h61, \h2C>>, <<\h99, \h09, \h51, \hBA>>,
    <<\h07, \h6D, \hC4, \h19>>, <<\h70, \h6A, \hF4, \h8F>>, <<\hE9, \h63, \hA5, \h35>>, <<\h9E, \h64, \h95, \hA3>>,
    <<\h0E, \hDB, \h88, \h32>>, <<\h79, \hDC, \hB8, \hA4>>, <<\hE0, \hD5, \hE9, \h1E>>, <<\h97, \hD2, \hD9, \h88>>,
    <<\h09, \hB6, \h4C, \h2B>>, <<\h7E, \hB1, \h7C, \hBD>>, <<\hE7, \hB8, \h2D, \h07>>, <<\h90, \hBF, \h1D, \h91>>,
    <<\h1D, \hB7, \h10, \h64>>, <<\h6A, \hB0, \h20, \hF2>>, <<\hF3, \hB9, \h71, \h48>>, <<\h84, \hBE, \h41, \hDE>>,
    <<\h1A, \hDA, \hD4, \h7D>>, <<\h6D, \hDD, \hE4, \hEB>>, <<\hF4, \hD4, \hB5, \h51>>, <<\h83, \hD3, \h85, \hC7>>,
    <<\h13, \h6C, \h98, \h56>>, <<\h64, \h6B, \hA8, \hC0>>, <<\hFD, \h62, \hF9, \h7A>>, <<\h8A, \h65, \hC9, \hEC>>,
    <<\h14, \h01, \h5C, \h4F>>, <<\h63, \h06, \h6C, \hD9>>, <<\hFA, \h0F, \h3D, \h63>>, <<\h8D, \h08, \h0D, \hF5>>,
    <<\h3B, \h6E, \h20, \hC8>>, <<\h4C, \h69, \h10, \h5E>>, <<\hD5, \h60, \h41, \hE4>>, <<\hA2, \h67, \h71, \h72>>,
    <<\h3C, \h03, \hE4, \hD1>>, <<\h4B, \h04, \hD4, \h47>>, <<\hD2, \h0D, \h85, \hFD>>, <<\hA5, \h0A, \hB5, \h6B>>,
    <<\h35, \hB5, \hA8, \hFA>>, <<\h42, \hB2, \h98, \h6C>>, <<\hDB, \hBB, \hC9, \hD6>>, <<\hAC, \hBC, \hF9, \h40>>,
    <<\h32, \hD8, \h6C, \hE3>>, <<\h45, \hDF, \h5C, \h75>>, <<\hDC, \hD6, \h0D, \hCF>>, <<\hAB, \hD1, \h3D, \h59>>,
    <<\h26, \hD9, \h30, \hAC>>, <<\h51, \hDE, \h00, \h3A>>, <<\hC8, \hD7, \h51, \h80>>, <<\hBF, \hD0, \h61, \h16>>,
    <<\h21, \hB4, \hF4, \hB5>>, <<\h56, \hB3, \hC4, \h23>>, <<\hCF, \hBA, \h95, \h99>>, <<\hB8, \hBD, \hA5, \h0F>>,
    <<\h28, \h02, \hB8, \h9E>>, <<\h5F, \h05, \h88, \h08>>, <<\hC6, \h0C, \hD9, \hB2>>, <<\hB1, \h0B, \hE9, \h24>>,
    <<\h2F, \h6F, \h7C, \h87>>, <<\h58, \h68, \h4C, \h11>>, <<\hC1, \h61, \h1D, \hAB>>, <<\hB6, \h66, \h2D, \h3D>>,
    <<\h76, \hDC, \h41, \h90>>, <<\h01, \hDB, \h71, \h06>>, <<\h98, \hD2, \h20, \hBC>>, <<\hEF, \hD5, \h10, \h2A>>,
    <<\h71, \hB1, \h85, \h89>>, <<\h06, \hB6, \hB5, \h1F>>, <<\h9F, \hBF, \hE4, \hA5>>, <<\hE8, \hB8, \hD4, \h33>>,
    <<\h78, \h07, \hC9, \hA2>>, <<\h0F, \h00, \hF9, \h34>>, <<\h96, \h09, \hA8, \h8E>>, <<\hE1, \h0E, \h98, \h18>>,
    <<\h7F, \h6A, \h0D, \hBB>>, <<\h08, \h6D, \h3D, \h2D>>, <<\h91, \h64, \h6C, \h97>>, <<\hE6, \h63, \h5C, \h01>>,
    <<\h6B, \h6B, \h51, \hF4>>, <<\h1C, \h6C, \h61, \h62>>, <<\h85, \h65, \h30, \hD8>>, <<\hF2, \h62, \h00, \h4E>>,
    <<\h6C, \h06, \h95, \hED>>, <<\h1B, \h01, \hA5, \h7B>>, <<\h82, \h08, \hF4, \hC1>>, <<\hF5, \h0F, \hC4, \h57>>,
    <<\h65, \hB0, \hD9, \hC6>>, <<\h12, \hB7, \hE9, \h50>>, <<\h8B, \hBE, \hB8, \hEA>>, <<\hFC, \hB9, \h88, \h7C>>,
    <<\h62, \hDD, \h1D, \hDF>>, <<\h15, \hDA, \h2D, \h49>>, <<\h8C, \hD3, \h7C, \hF3>>, <<\hFB, \hD4, \h4C, \h65>>,
    <<\h4D, \hB2, \h61, \h58>>, <<\h3A, \hB5, \h51, \hCE>>, <<\hA3, \hBC, \h00, \h74>>, <<\hD4, \hBB, \h30, \hE2>>,
    <<\h4A, \hDF, \hA5, \h41>>, <<\h3D, \hD8, \h95, \hD7>>, <<\hA4, \hD1, \hC4, \h6D>>, <<\hD3, \hD6, \hF4, \hFB>>,
    <<\h43, \h69, \hE9, \h6A>>, <<\h34, \h6E, \hD9, \hFC>>, <<\hAD, \h67, \h88, \h46>>, <<\hDA, \h60, \hB8, \hD0>>,
    <<\h44, \h04, \h2D, \h73>>, <<\h33, \h03, \h1D, \hE5>>, <<\hAA, \h0A, \h4C, \h5F>>, <<\hDD, \h0D, \h7C, \hC9>>,
    <<\h50, \h05, \h71, \h3C>>, <<\h27, \h02, \h41, \hAA>>, <<\hBE, \h0B, \h10, \h10>>, <<\hC9, \h0C, \h20, \h86>>,
    <<\h57, \h68, \hB5, \h25>>, <<\h20, \h6F, \h85, \hB3>>, <<\hB9, \h66, \hD4, \h09>>, <<\hCE, \h61, \hE4, \h9F>>,
    <<\h5E, \hDE, \hF9, \h0E>>, <<\h29, \hD9, \hC9, \h98>>, <<\hB0, \hD0, \h98, \h22>>, <<\hC7, \hD7, \hA8, \hB4>>,
    <<\h59, \hB3, \h3D, \h17>>, <<\h2E, \hB4, \h0D, \h81>>, <<\hB7, \hBD, \h5C, \h3B>>, <<\hC0, \hBA, \h6C, \hAD>>,
    <<\hED, \hB8, \h83, \h20>>, <<\h9A, \hBF, \hB3, \hB6>>, <<\h03, \hB6, \hE2, \h0C>>, <<\h74, \hB1, \hD2, \h9A>>,
    <<\hEA, \hD5, \h47, \h39>>, <<\h9D, \hD2, \h77, \hAF>>, <<\h04, \hDB, \h26, \h15>>, <<\h73, \hDC, \h16, \h83>>,
    <<\hE3, \h63, \h0B, \h12>>, <<\h94, \h64, \h3B, \h84>>, <<\h0D, \h6D, \h6A, \h3E>>, <<\h7A, \h6A, \h5A, \hA8>>,
    <<\hE4, \h0E, \hCF, \h0B>>, <<\h93, \h09, \hFF, \h9D>>, <<\h0A, \h00, \hAE, \h27>>, <<\h7D, \h07, \h9E, \hB1>>,
    <<\hF0, \h0F, \h93, \h44>>, <<\h87, \h08, \hA3, \hD2>>, <<\h1E, \h01, \hF2, \h68>>, <<\h69, \h06, \hC2, \hFE>>,
    <<\hF7, \h62, \h57, \h5D>>, <<\h80, \h65, \h67, \hCB>>, <<\h19, \h6C, \h36, \h71>>, <<\h6E, \h6B, \h06, \hE7>>,
    <<\hFE, \hD4, \h1B, \h76>>, <<\h89, \hD3, \h2B, \hE0>>, <<\h10, \hDA, \h7A, \h5A>>, <<\h67, \hDD, \h4A, \hCC>>,
    <<\hF9, \hB9, \hDF, \h6F>>, <<\h8E, \hBE, \hEF, \hF9>>, <<\h17, \hB7, \hBE, \h43>>, <<\h60, \hB0, \h8E, \hD5>>,
    <<\hD6, \hD6, \hA3, \hE8>>, <<\hA1, \hD1, \h93, \h7E>>, <<\h38, \hD8, \hC2, \hC4>>, <<\h4F, \hDF, \hF2, \h52>>,
    <<\hD1, \hBB, \h67, \hF1>>, <<\hA6, \hBC, \h57, \h67>>, <<\h3F, \hB5, \h06, \hDD>>, <<\h48, \hB2, \h36, \h4B>>,
    <<\hD8, \h0D, \h2B, \hDA>>, <<\hAF, \h0A, \h1B, \h4C>>, <<\h36, \h03, \h4A, \hF6>>, <<\h41, \h04, \h7A, \h60>>,
    <<\hDF, \h60, \hEF, \hC3>>, <<\hA8, \h67, \hDF, \h55>>, <<\h31, \h6E, \h8E, \hEF>>, <<\h46, \h69, \hBE, \h79>>,
    <<\hCB, \h61, \hB3, \h8C>>, <<\hBC, \h66, \h83, \h1A>>, <<\h25, \h6F, \hD2, \hA0>>, <<\h52, \h68, \hE2, \h36>>,
    <<\hCC, \h0C, \h77, \h95>>, <<\hBB, \h0B, \h47, \h03>>, <<\h22, \h02, \h16, \hB9>>, <<\h55, \h05, \h26, \h2F>>,
    <<\hC5, \hBA, \h3B, \hBE>>, <<\hB2, \hBD, \h0B, \h28>>, <<\h2B, \hB4, \h5A, \h92>>, <<\h5C, \hB3, \h6A, \h04>>,
    <<\hC2, \hD7, \hFF, \hA7>>, <<\hB5, \hD0, \hCF, \h31>>, <<\h2C, \hD9, \h9E, \h8B>>, <<\h5B, \hDE, \hAE, \h1D>>,
    <<\h9B, \h64, \hC2, \hB0>>, <<\hEC, \h63, \hF2, \h26>>, <<\h75, \h6A, \hA3, \h9C>>, <<\h02, \h6D, \h93, \h0A>>,
    <<\h9C, \h09, \h06, \hA9>>, <<\hEB, \h0E, \h36, \h3F>>, <<\h72, \h07, \h67, \h85>>, <<\h05, \h00, \h57, \h13>>,
    <<\h95, \hBF, \h4A, \h82>>, <<\hE2, \hB8, \h7A, \h14>>, <<\h7B, \hB1, \h2B, \hAE>>, <<\h0C, \hB6, \h1B, \h38>>,
    <<\h92, \hD2, \h8E, \h9B>>, <<\hE5, \hD5, \hBE, \h0D>>, <<\h7C, \hDC, \hEF, \hB7>>, <<\h0B, \hDB, \hDF, \h21>>,
    <<\h86, \hD3, \hD2, \hD4>>, <<\hF1, \hD4, \hE2, \h42>>, <<\h68, \hDD, \hB3, \hF8>>, <<\h1F, \hDA, \h83, \h6E>>,
    <<\h81, \hBE, \h16, \hCD>>, <<\hF6, \hB9, \h26, \h5B>>, <<\h6F, \hB0, \h77, \hE1>>, <<\h18, \hB7, \h47, \h77>>,
    <<\h88, \h08, \h5A, \hE6>>, <<\hFF, \h0F, \h6A, \h70>>, <<\h66, \h06, \h3B, \hCA>>, <<\h11, \h01, \h0B, \h5C>>,
    <<\h8F, \h65, \h9E, \hFF>>, <<\hF8, \h62, \hAE, \h69>>, <<\h61, \h6B, \hFF, \hD3>>, <<\h16, \h6C, \hCF, \h45>>,
    <<\hA0, \h0A, \hE2, \h78>>, <<\hD7, \h0D, \hD2, \hEE>>, <<\h4E, \h04, \h83, \h54>>, <<\h39, \h03, \hB3, \hC2>>,
    <<\hA7, \h67, \h26, \h61>>, <<\hD0, \h60, \h16, \hF7>>, <<\h49, \h69, \h47, \h4D>>, <<\h3E, \h6E, \h77, \hDB>>,
    <<\hAE, \hD1, \h6A, \h4A>>, <<\hD9, \hD6, \h5A, \hDC>>, <<\h40, \hDF, \h0B, \h66>>, <<\h37, \hD8, \h3B, \hF0>>,
    <<\hA9, \hBC, \hAE, \h53>>, <<\hDE, \hBB, \h9E, \hC5>>, <<\h47, \hB2, \hCF, \h7F>>, <<\h30, \hB5, \hFF, \hE9>>,
    <<\hBD, \hBD, \hF2, \h1C>>, <<\hCA, \hBA, \hC2, \h8A>>, <<\h53, \hB3, \h93, \h30>>, <<\h24, \hB4, \hA3, \hA6>>,
    <<\hBA, \hD0, \h36, \h05>>, <<\hCD, \hD7, \h06, \h93>>, <<\h54, \hDE, \h57, \h29>>, <<\h23, \hD9, \h67, \hBF>>,
    <<\hB3, \h66, \h7A, \h2E>>, <<\hC4, \h61, \h4A, \hB8>>, <<\h5D, \h68, \h1B, \h02>>, <<\h2A, \h6F, \h2B, \h94>>,
    <<\hB4, \h0B, \hBE, \h37>>, <<\hC3, \h0C, \h8E, \hA1>>, <<\h5A, \h05, \hDF, \h1B>>, <<\h2D, \h02, \hEF, \h8D>>
>>

semp_crc32Table == mmp_crc32Table

\* crc = table[(crc ^ data) & 0xff] ^ (crc >> 8)
Crc32Step(table, crc, data) ==
    Xor32(table[Xor8(LowByte(crc), data) + 1], Shr8(crc))

---------------------------------------------------------------------------
(* Draft "mmp": src/src/multi_protocol_parser.c / multi_protocol_parser.h  *)
(*                                                                         *)
(* An MMP_PARSE_STATE is a record.  Function pointers are the names of     *)
(* the C functions they point at; a callback pointer is TRUE when it is    *)
(* non-NULL.  Buffer index i of the C code is index i+1 of the tuple.      *)
(* Five fields are instrumentation of one mmpProcessByte call and not C    *)
(* fields: sinks (the callbacks invoked during the call, in order), ret    *)
(* (the value the call returns), offered (mmpFirstByte ran in the call:    *)
(* the byte was offered to the preambles), consulted (the indices of the   *)
(* table entries the call invoked, in order) and badCrcResult (what the    *)
(* user's badCrc callback answers if it is asked during the call).  oob    *)
(* counts the stores the code makes past the end of the caller's buffer.   *)

MMP_PROTOCOL_SEMP == 0

MMP_PROTOCOL_NMEA == 1

MMP_PROTOCOL_UBLOX == 2

MMP_PROTOCOL_RTCM == 3

MMP_PROTOCOL_COUNT == 8

MMP_MINIMUM_BUFFER_LENGTH == 256

MMP_MAX_SENTENCE_NAME == 16

\* sizeof(MMP_SEMP_HEADER)
MMP_SEMP_HEADER_SIZE == 20

\* --x on a uint16_t
Dec16(x) == (x + 65535) % 65536

\* A callback invocation is appended to the record of the current call.
Call(p, ev) == [p EXCEPT !.sinks = Append(@, ev)]

Return(p, b) == [p EXCEPT !.ret = b]

\* buffer[index] = value; a store past the end of the buffer is counted.
StoreAt(p, index, value) ==
    IF index < p.bufferLength
    THEN [p EXCEPT !.buffer[index + 1] = value]
    ELSE [p EXCEPT !.oob = @ + 1]

\* The bytes the callback can read: buffer[0 .. length-1].
Message(p) ==
    SubSeq(p.buffer, 1, IF p.length < p.bufferLength THEN p.length ELSE p.bufferLength)

\* parse->eomCallback(parse, type)
EomCallback(p, type) ==
    Call(p, [sink |-> "eomCallback", type |-> type, msg |-> Message(p)])

\* parse->badCrc(parse): the call is recorded, the answer is badCrcResult.
BadCrcCallback(p) ==
    Call(p, [sink |-> "badCrc", result |-> p.badCrcResult, msg |-> Message(p)])

mmpSafePrintf(p, callback) ==
    IF p[callback] THEN Call(p, [sink |-> callback]) ELSE p

mmpAsciiToNibble(data) ==
    LET d == Or20(data)
    IN  IF d >= 97 /\ d <= 102 THEN d - 97 + 10
        ELSE IF d >= 48 /\ d <= 57 THEN d - 48
        ELSE -1

mmpSempComputeCrc(p, data) == Crc32Step(mmp_crc32Table, p.crc, data)

mmpSempPreamble(p, data) ==
    IF data # \hAA THEN Return(p, FALSE)
    ELSE LET p1 == [p EXCEPT !.crc = U32Ones, !.computeCrc = "mmpSempComputeCrc"]
         IN  [p1 EXCEPT !.crc = mmpSempComputeCrc(p1, data),
                        !.state = "mmpSempSync2",
                        !.ret = TRUE]

mmpNmeaPreamble(p, data) ==
    IF data # 36 \* "$"
    THEN Return(p, FALSE)
    ELSE [p EXCEPT !.scratchPad.nmea.sentenceNameLength = 0,
                   !.crc = U32Zero,
                   !.computeCrc = "NULL",
                   !.state = "mmpNmeaFindFirstComma",
                   !.ret = TRUE]

mmpUbloxPreamble(p, data) ==
    IF data # \hB5 THEN Return(p, FALSE)
    ELSE [p EXCEPT !.computeCrc = "NULL",
                   !.state = "mmpUbloxSync2",
                   !.ret = TRUE]

mmpRtcmPreamble(p, data) ==
    IF data # \hD3 THEN Return(p, FALSE)
    ELSE [mmpSafePrintf(p, "printDebug") EXCEPT !.state = "mmpFirstByte",
                                                 !.ret = FALSE]

mmp_parserTable ==
    <<"mmpSempPreamble", "mmpNmeaPreamble", "mmpUbloxPreamble", "mmpRtcmPreamble">>

MMP_PARSER_COUNT == Len(mmp_parserTable)

\* mmp_parserTable[index](parse, data)
mmpCallPreamble(name, p, data) ==
    CASE name = "mmpSempPreamble" -> mmpSempPreamble(p, data)
      [] name = "mmpNmeaPreamble" -> mmpNmeaPreamble(p, data)
      [] name = "mmpUbloxPreamble" -> mmpUbloxPreamble(p, data)
      [] name = "mmpRtcmPreamble" -> mmpRtcmPreamble(p, data)

\* The loop of mmpFirstByte without its return on acceptance: every entry is
\* asked, whatever the entries before it answered.
RECURSIVE mmpWalkParserTable_AsksEveryEntry(_, _, _)
mmpWalkParserTable_AsksEveryEntry(p, data, index) ==
    IF index >= MMP_PARSER_COUNT
    THEN IF p.type = MMP_PROTOCOL_COUNT
         THEN [p EXCEPT !.state = "mmpFirstByte", !.ret = FALSE]
         ELSE [p EXCEPT !.ret = TRUE]
    ELSE LET q == mmpCallPreamble(mmp_parserTable[index + 1],
                                  [p EXCEPT !.consulted = Append(@, index)],
                                  data)
         IN  mmpWalkParserTable_AsksEveryEntry(
                 IF q.ret THEN [q EXCEPT !.type = index] ELSE q, data, index + 1)

\* The loop of mmpFirstByte without the store of the accepting index.
RECURSIVE mmpWalkParserTable_KeepsNoIndex(_, _, _)
mmpWalkParserTable_KeepsNoIndex(p, data, index) ==
    IF index >= MMP_PARSER_COUNT
    THEN [p EXCEPT !.state = "mmpFirstByte", !.ret = FALSE]
    ELSE LET q == mmpCallPreamble(mmp_parserTable[index + 1],
                                  [p EXCEPT !.consulted = Append(@, index)],
                                  data)
         IN  IF q.ret THEN q
             ELSE mmpWalkParserTable_KeepsNoIndex(q, data, index + 1)

\* The for loop of mmpFirstByte from table entry index on.
RECURSIVE mmpWalkParserTable(_, _, _)
mmpWalkParserTable(p, data, index) ==
    IF index >= MMP_PARSER_COUNT
    THEN [p EXCEPT !.state = "mmpFirstByte", !.ret = FALSE]
    ELSE LET q == mmpCallPreamble(mmp_parserTable[index + 1],
                                  [p EXCEPT !.consulted = Append(@, index)],
                                  data)
         IN  IF q.ret THEN [q EXCEPT !.type = index]
             ELSE mmpWalkParserTable(q, data, index + 1)

\* mmpFirstByte with the length cleared again when no preamble accepts.
mmpFirstByte_ClearsLength(p, data) ==
    LET p1 == [p EXCEPT !.crc = U32Zero,
                        !.computeCrc = "NULL",
                        !.length = 1,
                        !.type = MMP_PROTOCOL_COUNT,
                        !.buffer[1] = data,
                        !.totalBytes = @ + 1,
                        !.offered = TRUE]
        q == mmpWalkParserTable(p1, data, 0)
    IN  IF q.ret THEN q ELSE [q EXCEPT !.length = 0]

mmpFirstByte(p, data) ==
    LET p1 == [p EXCEPT !.crc = U32Zero,
                        !.computeCrc = "NULL",
                        !.length = 1,
                        !.type = MMP_PROTOCOL_COUNT,
                        !.buffer[1] = data,
                        !.totalBytes = @ + 1,
                        !.offered = TRUE]
    IN  mmpWalkParserTable(p1, data, 0)

\* --- SEMP/BT states ---

mmpSempReadCrc(p, data) ==
    LET remaining == Dec16(p.scratchPad.semp.bytesRemaining)
        p1 == [p EXCEPT !.scratchPad.semp.bytesRemaining = remaining]
        \* buffer[length-4] | buffer[length-3] << 8 | ..., most significant first
        crcRead == IF p1.length >= 4
                   THEN <<p1.buffer[p1.length], p1.buffer[p1.length - 1],
                          p1.buffer[p1.length - 2], p1.buffer[p1.length - 3]>>
                   ELSE U32Zero
        crcComputed == p1.scratchPad.semp.crc
        good == EomCallback(
                    [p1 EXCEPT !.messagesProcessed[MMP_PROTOCOL_SEMP] = @ + 1],
                    MMP_PROTOCOL_SEMP)
        bad0 == [p1 EXCEPT !.crcErrors[MMP_PROTOCOL_SEMP] = @ + 1]
        bad  == IF ~bad0.badCrc THEN mmpSafePrintf(bad0, "printDebug")
                ELSE LET asked == BadCrcCallback(bad0)
                     IN  IF ~asked.badCrcResult
                         THEN mmpSafePrintf(asked, "printDebug")
                         ELSE asked
    IN  IF remaining # 0 THEN Return(p1, TRUE)
        ELSE [(IF crcRead = crcComputed THEN good ELSE bad)
                 EXCEPT !.state = "mmpFirstByte", !.ret = FALSE]

mmpSempReadData(p, data) ==
    LET remaining == Dec16(p.scratchPad.semp.bytesRemaining)
        inverted == Xor32(p.crc, U32Ones)
    IN  IF remaining = 0
        THEN [p EXCEPT !.scratchPad.semp.bytesRemaining = 4,
                       !.crc = inverted,
                       !.scratchPad.semp.crc = inverted,
                       !.state = "mmpSempReadCrc",
                       !.ret = TRUE]
        ELSE [p EXCEPT !.scratchPad.semp.bytesRemaining = remaining,
                       !.ret = TRUE]

mmpSempReadHeader(p, data) ==
    LET headerLength == p.buffer[4]
        \* uint16_t at offset 12 of the header, little-endian host
        messageLength == p.buffer[13] + 256 * p.buffer[14]
        inverted == Xor32(p.crc, U32Ones)
    IN  IF p.length < MMP_SEMP_HEADER_SIZE THEN Return(p, TRUE)
        ELSE IF headerLength # \h14
        THEN [mmpSafePrintf(p, "printDebug") EXCEPT !.state = "mmpFirstByte",
                                                     !.ret = FALSE]
        ELSE IF messageLength = 0
        THEN [p EXCEPT !.scratchPad.semp.bytesRemaining = 4,
                       !.crc = inverted,
                       !.scratchPad.semp.crc = inverted,
                       !.state = "mmpSempReadCrc",
                       !.ret = TRUE]
        ELSE [p EXCEPT !.scratchPad.semp.bytesRemaining = messageLength,
                       !.state = "mmpSempReadData",
                       !.ret = TRUE]

mmpSempSync3(p, data) ==
    IF data # \h18 THEN mmpFirstByte(p, data)
    ELSE [p EXCEPT !.state = "mmpSempReadHeader", !.ret = TRUE]

mmpSempSync2(p, data) ==
    IF data # \h44 THEN mmpFirstByte(p, data)
    ELSE [p EXCEPT !.state = "mmpSempSync3", !.ret = TRUE]

\* --- NMEA states ---

\* parse->crc ^= data (only the low byte changes)
NmeaXor(crc, data) == <<crc[1], crc[2], crc[3], Xor8(crc[4], data)>>

\* mmpNmeaValidateChecksum with the badCrc answer read the other way round
\* (true accepts the sentence); the code reads false as "accept".
mmpNmeaValidateChecksum_TrueAccepts(p) ==
    LET checksum == mmpAsciiToNibble(p.buffer[p.length - 1]) * 16
                    + mmpAsciiToNibble(p.buffer[p.length])
        matches == checksum = LowByte(p.crc)
        asked == IF ~matches /\ p.badCrc THEN BadCrcCallback(p) ELSE p
        accept == matches \/ (p.badCrc /\ asked.badCrcResult)
        p1 == StoreAt(asked, asked.length, 13)
        p2 == StoreAt(p1, p1.length + 1, 10)
        p3 == StoreAt([p2 EXCEPT !.length = @ + 2], p2.length + 2, 0)
    IN  IF accept
        THEN EomCallback(
                 [p3 EXCEPT !.messagesProcessed[MMP_PROTOCOL_NMEA] = @ + 1],
                 MMP_PROTOCOL_NMEA)
        ELSE mmpSafePrintf(
                 [asked EXCEPT !.crcErrors[MMP_PROTOCOL_NMEA] = @ + 1],
                 "printDebug")

\* mmpNmeaValidateChecksum that also writes a debug line for a good sentence.
mmpNmeaValidateChecksum_AlsoPrints(p) ==
    LET checksum == mmpAsciiToNibble(p.buffer[p.length - 1]) * 16
                    + mmpAsciiToNibble(p.buffer[p.length])
        matches == checksum = LowByte(p.crc)
        asked == IF ~matches /\ p.badCrc THEN BadCrcCallback(p) ELSE p
        accept == matches \/ (p.badCrc /\ ~asked.badCrcResult)
        p1 == StoreAt(asked, asked.length, 13)
        p2 == StoreAt(p1, p1.length + 1, 10)
        p3 == StoreAt([p2 EXCEPT !.length = @ + 2], p2.length + 2, 0)
    IN  IF accept
        THEN mmpSafePrintf(
                 EomCallback(
                     [p3 EXCEPT !.messagesProcessed[MMP_PROTOCOL_NMEA] = @ + 1],
                     MMP_PROTOCOL_NMEA),
                 "printDebug")
        ELSE mmpSafePrintf(
                 [asked EXCEPT !.crcErrors[MMP_PROTOCOL_NMEA] = @ + 1],
                 "printDebug")

mmpNmeaValidateChecksum(p) ==
    LET checksum == mmpAsciiToNibble(p.buffer[p.length - 1]) * 16
                    + mmpAsciiToNibble(p.buffer[p.length])
        matches == checksum = LowByte(p.crc)
        asked == IF ~matches /\ p.badCrc THEN BadCrcCallback(p) ELSE p
        accept == matches \/ (p.badCrc /\ ~asked.badCrcResult)
        p1 == StoreAt(asked, asked.length, 13)
        p2 == StoreAt(p1, p1.length + 1, 10)
        p3 == StoreAt([p2 EXCEPT !.length = @ + 2], p2.length + 2, 0)
    IN  IF accept
        THEN EomCallback(
                 [p3 EXCEPT !.messagesProcessed[MMP_PROTOCOL_NMEA] = @ + 1],
                 MMP_PROTOCOL_NMEA)
        ELSE mmpSafePrintf(
                 [asked EXCEPT !.crcErrors[MMP_PROTOCOL_NMEA] = @ + 1],
                 "printDebug")

\* mmpNmeaLineTermination that stays in the same state after a CR or LF.
mmpNmeaLineTermination_StaysLocked(p, data) ==
    LET p1 == [p EXCEPT !.length = @ - 1]
        p2 == mmpNmeaValidateChecksum(p1)
    IN  IF data = 13 \/ data = 10
        THEN [p2 EXCEPT !.ret = TRUE]
        ELSE mmpFirstByte(p2, data)

\* mmpNmeaLineTermination that validates and goes to scanning on any byte,
\* without offering a byte that is neither CR nor LF to the preambles.
mmpNmeaLineTermination_DropsByte(p, data) ==
    LET p1 == [p EXCEPT !.length = @ - 1]
        p2 == mmpNmeaValidateChecksum(p1)
    IN  IF data = 13 \/ data = 10
        THEN [p2 EXCEPT !.state = "mmpFirstByte", !.ret = TRUE]
        ELSE [p2 EXCEPT !.state = "mmpFirstByte", !.ret = FALSE]

mmpNmeaLineTermination(p, data) ==
    LET p1 == [p EXCEPT !.length = @ - 1]
        p2 == mmpNmeaValidateChecksum(p1)
    IN  IF data = 13 \/ data = 10
        THEN [p2 EXCEPT !.state = "mmpFirstByte", !.ret = TRUE]
        ELSE mmpFirstByte(p2, data)

\* mmpNmeaChecksumByte2 validating at the second checksum digit instead of
\* waiting for the byte that ends the line.
mmpNmeaChecksumByte2_ValidatesAtOnce(p, data) ==
    IF mmpAsciiToNibble(p.buffer[p.length]) >= 0
    THEN [mmpNmeaValidateChecksum(p) EXCEPT !.state = "mmpFirstByte", !.ret = TRUE]
    ELSE mmpFirstByte(mmpSafePrintf(p, "printDebug"), data)

mmpNmeaChecksumByte2(p, data) ==
    IF mmpAsciiToNibble(p.buffer[p.length]) >= 0
    THEN [p EXCEPT !.state = "mmpNmeaLineTermination", !.ret = TRUE]
    ELSE mmpFirstByte(mmpSafePrintf(p, "printDebug"), data)

mmpNmeaChecksumByte1(p, data) ==
    IF mmpAsciiToNibble(p.buffer[p.length]) >= 0
    THEN [p EXCEPT !.state = "mmpNmeaChecksumByte2", !.ret = TRUE]
    ELSE mmpFirstByte(mmpSafePrintf(p, "printDebug"), data)

\* mmpNmeaFindAsterisk with the "*" included in the running XOR.
mmpNmeaFindAsterisk_XorsAsterisk(p, data) ==
    IF data = 42
    THEN [p EXCEPT !.crc = NmeaXor(@, data),
                   !.state = "mmpNmeaChecksumByte1", !.ret = TRUE]
    ELSE LET p1 == [p EXCEPT !.crc = NmeaXor(@, data)]
         IN  IF p1.length + 5 > p1.bufferLength
             THEN mmpFirstByte(mmpSafePrintf(p1, "printDebug"), data)
             ELSE Return(p1, TRUE)

mmpNmeaFindAsterisk(p, data) ==
    IF data = 42 \* "*"
    THEN [p EXCEPT !.state = "mmpNmeaChecksumByte1", !.ret = TRUE]
    ELSE LET p1 == [p EXCEPT !.crc = NmeaXor(@, data)]
         IN  IF p1.length + 5 > p1.bufferLength
             THEN mmpFirstByte(mmpSafePrintf(p1, "printDebug"), data)
             ELSE Return(p1, TRUE)

\* mmpNmeaFindFirstComma without the test of the name length.
mmpNmeaFindFirstComma_NoNameLimit(p, data) ==
    LET p1 == [p EXCEPT !.crc = NmeaXor(@, data)]
        nameLength == p1.scratchPad.nmea.sentenceNameLength
        upper == AndNot20(data)
    IN  IF data # 44 \/ nameLength = 0
        THEN IF (upper < 65 \/ upper > 90) /\ (data < 48 \/ data > 57)
             THEN mmpFirstByte(mmpSafePrintf(p1, "printDebug"), data)
             ELSE [p1 EXCEPT !.scratchPad.nmea.sentenceName =
                                 [i \in DOMAIN @ \cup {nameLength + 1} |->
                                     IF i = nameLength + 1 THEN data ELSE @[i]],
                             !.scratchPad.nmea.sentenceNameLength = nameLength + 1,
                             !.ret = TRUE]
        ELSE [p1 EXCEPT !.scratchPad.nmea.sentenceName[nameLength + 1] = 0,
                        !.state = "mmpNmeaFindAsterisk",
                        !.ret = TRUE]

mmpNmeaFindFirstComma(p, data) ==
    LET p1 == [p EXCEPT !.crc = NmeaXor(@, data)]
        nameLength == p1.scratchPad.nmea.sentenceNameLength
        upper == AndNot20(data)
    IN  IF data # 44 \/ nameLength = 0
        THEN IF (upper < 65 \/ upper > 90) /\ (data < 48 \/ data > 57)
             THEN mmpFirstByte(mmpSafePrintf(p1, "printDebug"), data)
             ELSE IF nameLength >= MMP_MAX_SENTENCE_NAME - 1
             THEN mmpFirstByte(mmpSafePrintf(p1, "printDebug"), data)
             ELSE [p1 EXCEPT !.scratchPad.nmea.sentenceName[nameLength + 1] = data,
                             !.scratchPad.nmea.sentenceNameLength = nameLength + 1,
                             !.ret = TRUE]
        ELSE [p1 EXCEPT !.scratchPad.nmea.sentenceName[nameLength + 1] = 0,
                        !.state = "mmpNmeaFindAsterisk",
                        !.ret = TRUE]

\* --- u-blox states ---

\* mmpUbloxComputeChecksum adding to checksumB before checksumA is updated.
mmpUbloxComputeChecksum_AddsBFirst(p, data) ==
    LET b == (p.scratchPad.ublox.checksumB + p.scratchPad.ublox.checksumA) % 256
        a == (p.scratchPad.ublox.checksumA + data) % 256
    IN  [p EXCEPT !.scratchPad.ublox.checksumA = a,
                  !.scratchPad.ublox.checksumB = b]

mmpUbloxComputeChecksum(p, data) ==
    LET a == (p.scratchPad.ublox.checksumA + data) % 256
        b == (p.scratchPad.ublox.checksumB + a) % 256
    IN  [p EXCEPT !.scratchPad.ublox.checksumA = a,
                  !.scratchPad.ublox.checksumB = b]

\* mmpUbloxChecksumB handing the NMEA index to the end-of-message callback.
mmpUbloxChecksumB_ReportsNmea(p, data) ==
    LET good == EomCallback(
                    [p EXCEPT !.messagesProcessed[MMP_PROTOCOL_UBLOX] = @ + 1],
                    MMP_PROTOCOL_NMEA)
        bad  == mmpSafePrintf(
                    [p EXCEPT !.crcErrors[MMP_PROTOCOL_UBLOX] = @ + 1],
                    "printDebug")
    IN  [(IF data = p.scratchPad.ublox.checksumB THEN good ELSE bad)
            EXCEPT !.state = "mmpFirstByte", !.ret = FALSE]

mmpUbloxChecksumB(p, data) ==
    LET good == EomCallback(
                    [p EXCEPT !.messagesProcessed[MMP_PROTOCOL_UBLOX] = @ + 1],
                    MMP_PROTOCOL_UBLOX)
        bad  == mmpSafePrintf(
                    [p EXCEPT !.crcErrors[MMP_PROTOCOL_UBLOX] = @ + 1],
                    "printDebug")
    IN  [(IF data = p.scratchPad.ublox.checksumB THEN good ELSE bad)
            EXCEPT !.state = "mmpFirstByte", !.ret = FALSE]

mmpUbloxChecksumA(p, data) ==
    IF data = p.scratchPad.ublox.checksumA
    THEN [p EXCEPT !.state = "mmpUbloxChecksumB", !.ret = TRUE]
    ELSE [mmpSafePrintf([p EXCEPT !.crcErrors[MMP_PROTOCOL_UBLOX] = @ + 1],
                        "printDebug")
            EXCEPT !.state = "mmpFirstByte", !.ret = FALSE]

mmpUbloxReadData(p, data) ==
    LET p1 == mmpUbloxComputeChecksum(p, data)
        remaining == Dec16(p1.scratchPad.ublox.bytesRemaining)
    IN  [p1 EXCEPT !.scratchPad.ublox.bytesRemaining = remaining,
                   !.state = IF remaining = 0 THEN "mmpUbloxChecksumA" ELSE @,
                   !.ret = TRUE]

\* lengthBytes is a function-static of the C code, kept with the parse state.
mmpUbloxReadLength(p, data) ==
    LET p1 == mmpUbloxComputeChecksum(p, data)
        old == p1.scratchPad.ublox.bytesRemaining
        \* bytesRemaining |= (data << 8)
        remaining == (old % 256) + 256 * Or8(old \div 256, data)
    IN  IF p1.lengthBytes = 0
        THEN [p1 EXCEPT !.scratchPad.ublox.bytesRemaining = data,
                        !.lengthBytes = 1,
                        !.ret = TRUE]
        ELSE [p1 EXCEPT !.scratchPad.ublox.bytesRemaining = remaining,
                        !.lengthBytes = 0,
                        !.state = IF remaining = 0 THEN "mmpUbloxChecksumA"
                                  ELSE "mmpUbloxReadData",
                        !.ret = TRUE]

mmpUbloxReadMessageId(p, data) ==
    LET p1 == [p EXCEPT !.scratchPad.ublox.checksumA = 0,
                        !.scratchPad.ublox.checksumB = 0]
        p2 == mmpUbloxComputeChecksum(p1, p1.buffer[p1.length - 1])
        p3 == mmpUbloxComputeChecksum(p2, data)
    IN  [p3 EXCEPT !.state = "mmpUbloxReadLength", !.ret = TRUE]

mmpUbloxReadClass(p, data) ==
    [p EXCEPT !.state = "mmpUbloxReadMessageId", !.ret = TRUE]

mmpUbloxSync2(p, data) ==
    IF data # \h62 THEN mmpFirstByte(p, data)
    ELSE [p EXCEPT !.state = "mmpUbloxReadClass", !.ret = TRUE]

\* --- public API ---

\* parse->state(parse, data)
mmpCallState(p, data) ==
    CASE p.state = "mmpFirstByte" -> mmpFirstByte(p, data)
      [] p.state = "mmpSempSync2" -> mmpSempSync2(p, data)
      [] p.state = "mmpSempSync3" -> mmpSempSync3(p, data)
      [] p.state = "mmpSempReadHeader" -> mmpSempReadHeader(p, data)
      [] p.state = "mmpSempReadData" -> mmpSempReadData(p, data)
      [] p.state = "mmpSempReadCrc" -> mmpSempReadCrc(p, data)
      [] p.state = "mmpNmeaFindFirstComma" -> mmpNmeaFindFirstComma(p, data)
      [] p.state = "mmpNmeaFindAsterisk" -> mmpNmeaFindAsterisk(p, data)
      [] p.state = "mmpNmeaChecksumByte1" -> mmpNmeaChecksumByte1(p, data)
      [] p.state = "mmpNmeaChecksumByte2" -> mmpNmeaChecksumByte2(p, data)
      [] p.state = "mmpNmeaLineTermination" -> mmpNmeaLineTermination(p, data)
      [] p.state = "mmpUbloxSync2" -> mmpUbloxSync2(p, data)
      [] p.state = "mmpUbloxReadClass" -> mmpUbloxReadClass(p, data)
      [] p.state = "mmpUbloxReadMessageId" -> mmpUbloxReadMessageId(p, data)
      [] p.state = "mmpUbloxReadLength" -> mmpUbloxReadLength(p, data)
      [] p.state = "mmpUbloxReadData" -> mmpUbloxReadData(p, data)
      [] p.state = "mmpUbloxChecksumA" -> mmpUbloxChecksumA(p, data)
      [] p.state = "mmpUbloxChecksumB" -> mmpUbloxChecksumB(p, data)

\* mmpProcessByte without the test of length against bufferLength.
mmpProcessByte_NoOverflowCheck(p, data) ==
    LET p1 == [p EXCEPT !.buffer = IF p.length < p.bufferLength
                                   THEN [@ EXCEPT ![p.length + 1] = data]
                                   ELSE @,
                        !.length = @ + 1,
                        !.totalBytes = @ + 1]
        p2 == IF p1.computeCrc = "mmpSempComputeCrc"
              THEN [p1 EXCEPT !.crc = mmpSempComputeCrc(p1, data)]
              ELSE p1
    IN  mmpCallState(p2, data)

mmpProcessByte(p, data) ==
    IF p.length >= p.bufferLength
    THEN mmpFirstByte(mmpSafePrintf(p, "printError"), data)
    ELSE LET p1 == [p EXCEPT !.buffer[p.length + 1] = data,
                             !.length = @ + 1,
                             !.totalBytes = @ + 1]
             p2 == IF p1.computeCrc = "mmpSempComputeCrc"
                   THEN [p1 EXCEPT !.crc = mmpSempComputeCrc(p1, data)]
                   ELSE p1
         IN  mmpCallState(p2, data)

\* The parse state mmpInitParser leaves behind when it succeeds; the state
\* "NULL" stands for no session (it returned false).  The caller supplies
\* the parse structure and a buffer of bufferLength bytes.
mmpInitParser(bufferLength, eomCallback, badCrcCallback, printError, printDebug) ==
    IF ~eomCallback \/ bufferLength < MMP_MINIMUM_BUFFER_LENGTH
    THEN [state |-> "NULL"]
    ELSE
    [state |-> "mmpFirstByte",
     type |-> MMP_PROTOCOL_COUNT,
     computeCrc |-> "NULL",
     crc |-> U32Zero,
     buffer |-> [i \in 1..bufferLength |-> 0],
     length |-> 0,
     bufferLength |-> bufferLength,
     badCrc |-> badCrcCallback,
     printError |-> printError,
     printDebug |-> printDebug,
     scratchPad |-> [semp  |-> [crc |-> U32Zero, bytesRemaining |-> 0],
                     nmea  |-> [sentenceName |-> [i \in 1..MMP_MAX_SENTENCE_NAME |-> 0],
                                sentenceNameLength |-> 0],
                     ublox |-> [checksumA |-> 0, checksumB |-> 0,
                                bytesRemaining |-> 0]],
     lengthBytes |-> 0,
     messagesProcessed |-> [t \in 0..(MMP_PROTOCOL_COUNT - 1) |-> 0],
     crcErrors |-> [t \in 0..(MMP_PROTOCOL_COUNT - 1) |-> 0],
     totalBytes |-> 0,
     oob |-> 0,
     sinks |-> <<>>,
     ret |-> FALSE,
     offered |-> FALSE,
     consulted |-> <<>>,
     badCrcResult |-> FALSE]

\* The protocol of the frame in progress; MMP_PROTOCOL_COUNT is "unknown".
mmpGetActiveProtocol(p) ==
    IF p.type >= MMP_PROTOCOL_COUNT THEN MMP_PROTOCOL_COUNT ELSE p.type
---------------------------------------------------------------------------
(* Draft "semp": src/my_parser/Message_Parser.c (dispatcher) with the      *)
(* custom/BT machine of src/my_parser/Parse_Custom.c, the one entry of    *)
(* the demos' parser table whose code is in the source tree.               *)
(* src/lib/Parse_BT.cpp is the same machine under sempBluetooth* names.    *)

SEMP_MINIMUM_BUFFER_LENGTH == 256

\* sizeof(SEMP_CUSTOM_HEADER)
SEMP_CUSTOM_HEADER_SIZE == 20

sempMessage(p) == SubSeq(p.buffer, 1, p.msg_length)

\* sempPrintf(callback, ...): prints when the callback is not NULL.
sempPrintf(p, callback) ==
    IF p[callback] THEN Call(p, [sink |-> callback]) ELSE p

sempCustomComputeCrc(p, data) == Crc32Step(semp_crc32Table, p.crc, data)

\* sempCustomPreamble without `parse->crc = 0xFFFFFFFF`: the CRC runs on
\* from the value the session holds.
sempCustomPreamble_KeepsCrc(p, data) ==
    IF data # \hAA THEN Return(p, FALSE)
    ELSE LET p1 == [p EXCEPT !.computeCrc = "sempCustomComputeCrc"]
         IN  [p1 EXCEPT !.crc = sempCustomComputeCrc(p1, data),
                        !.state = "sempCustomSync2",
                        !.ret = TRUE]

sempCustomPreamble(p, data) ==
    IF data # \hAA THEN Return(p, FALSE)
    ELSE LET p1 == [p EXCEPT !.crc = U32Ones, !.computeCrc = "sempCustomComputeCrc"]
         IN  [p1 EXCEPT !.crc = sempCustomComputeCrc(p1, data),
                        !.state = "sempCustomSync2",
                        !.ret = TRUE]

\* The Unicore binary preamble (sync bytes AA 44 12), written on the fields
\* of this draft's parse structure.
msgp_unicore_bin_preamble(p, data) ==
    IF data # \hAA THEN Return(p, FALSE)
    ELSE LET p1 == [p EXCEPT !.msg_length = 1,
                             !.buffer[1] = data,
                             !.crc = U32Ones,
                             !.computeCrc = "msgp_computeCrc32"]
             p2 == [p1 EXCEPT !.crc = Crc32Step(semp_crc32Table, p1.crc, data),
                              !.state = "mpUnicoreBinSync2"]
         IN  Return(sempPrintf(p2, "printDebug"), TRUE)

\* The parser table passed to sempBeginParser: the BT/SEMP entry first, the
\* Unicore binary entry after it.
semp_parsersTable == <<"sempCustomPreamble", "msgp_unicore_bin_preamble">>

\* parse->parsers_table[index](parse, data)
sempCallPreamble(name, p, data) ==
    CASE name = "sempCustomPreamble" -> sempCustomPreamble(p, data)
      [] name = "msgp_unicore_bin_preamble" -> msgp_unicore_bin_preamble(p, data)

\* The for loop of sempFirstByte from table entry index on.
RECURSIVE sempWalkParsersTable(_, _, _)
sempWalkParsersTable(p, data, index) ==
    IF index >= p.parsers_count
    THEN [p EXCEPT !.state = "sempFirstByte", !.ret = FALSE]
    ELSE LET q == sempCallPreamble(semp_parsersTable[index + 1],
                                   [p EXCEPT !.consulted = Append(@, index)],
                                   data)
         IN  IF q.ret THEN [q EXCEPT !.parser_type = index]
             ELSE sempWalkParsersTable(q, data, index + 1)

sempFirstByte(p, data) ==
    LET p1 == [p EXCEPT !.crc = U32Zero,
                        !.computeCrc = "NULL",
                        !.msg_length = 1,
                        !.parser_type = p.parsers_count,
                        !.buffer[1] = data,
                        !.offered = TRUE]
    IN  sempWalkParsersTable(p1, data, 0)

\* sempCustomReadCrc with the badCrc answer read the other way round.
sempCustomReadCrc_TrueAccepts(p, data) ==
    LET remaining == Dec16(p.scratchPad.custom.bytesRemaining)
        p1 == [p EXCEPT !.scratchPad.custom.bytesRemaining = remaining]
        crcIsZero == p1.crc = U32Zero
        asked == IF ~crcIsZero /\ p1.badCrc
                 THEN Call(p1, [sink |-> "badCrc", result |-> p1.badCrcResult,
                                msg |-> sempMessage(p1)])
                 ELSE p1
        accept == crcIsZero \/ (p1.badCrc /\ asked.badCrcResult)
        done == IF accept
                THEN Call(asked, [sink |-> "eomCallback", type |-> asked.parser_type,
                                  msg |-> sempMessage(asked)])
                ELSE sempPrintf(asked, "printDebug")
    IN  IF remaining # 0 THEN Return(p1, TRUE)
        ELSE [done EXCEPT !.state = "sempFirstByte", !.ret = FALSE]

sempCustomReadCrc(p, data) ==
    LET remaining == Dec16(p.scratchPad.custom.bytesRemaining)
        p1 == [p EXCEPT !.scratchPad.custom.bytesRemaining = remaining]
        crcIsZero == p1.crc = U32Zero
        asked == IF ~crcIsZero /\ p1.badCrc
                 THEN Call(p1, [sink |-> "badCrc", result |-> p1.badCrcResult,
                                msg |-> sempMessage(p1)])
                 ELSE p1
        accept == crcIsZero \/ (p1.badCrc /\ ~asked.badCrcResult)
        done == IF accept
                THEN Call(asked, [sink |-> "eomCallback", type |-> asked.parser_type,
                                  msg |-> sempMessage(asked)])
                ELSE sempPrintf(asked, "printDebug")
    IN  IF remaining # 0 THEN Return(p1, TRUE)
        ELSE [done EXCEPT !.state = "sempFirstByte", !.ret = FALSE]

sempCustomReadData(p, data) ==
    LET remaining == Dec16(p.scratchPad.custom.bytesRemaining)
        inverted == Xor32(p.crc, U32Ones)
    IN  IF remaining = 0
        THEN [p EXCEPT !.scratchPad.custom.bytesRemaining = 4,
                       !.crc = inverted,
                       !.scratchPad.custom.crc = inverted,
                       !.state = "sempCustomReadCrc",
                       !.ret = TRUE]
        ELSE [p EXCEPT !.scratchPad.custom.bytesRemaining = remaining,
                       !.ret = TRUE]

sempCustomReadHeader(p, data) ==
    IF p.msg_length >= SEMP_CUSTOM_HEADER_SIZE
    THEN [p EXCEPT !.scratchPad.custom.bytesRemaining =
                       p.buffer[13] + 256 * p.buffer[14],
                   !.state = "sempCustomReadData",
                   !.ret = TRUE]
    ELSE Return(p, TRUE)

sempCustomSync3(p, data) ==
    IF data # \h18 THEN sempFirstByte(p, data)
    ELSE [p EXCEPT !.state = "sempCustomReadHeader", !.ret = TRUE]

sempCustomSync2(p, data) ==
    IF data # \h44 THEN sempFirstByte(p, data)
    ELSE [p EXCEPT !.state = "sempCustomSync3", !.ret = TRUE]

\* parse->state(parse, data)
sempCallState(p, data) ==
    CASE p.state = "sempFirstByte" -> sempFirstByte(p, data)
      [] p.state = "sempCustomSync2" -> sempCustomSync2(p, data)
      [] p.state = "sempCustomSync3" -> sempCustomSync3(p, data)
      [] p.state = "sempCustomReadHeader" -> sempCustomReadHeader(p, data)
      [] p.state = "sempCustomReadData" -> sempCustomReadData(p, data)
      [] p.state = "sempCustomReadCrc" -> sempCustomReadCrc(p, data)

\* sempParseNextByte returns void; ret keeps what the state routine returned.
sempParseNextByte(p, data) ==
    IF p.msg_length >= p.buffer_length
    THEN sempFirstByte(sempPrintf(p, "printError"), data)
    ELSE LET p1 == [p EXCEPT !.buffer[p.msg_length + 1] = data,
                             !.msg_length = @ + 1]
             p2 == IF p1.computeCrc = "sempCustomComputeCrc"
                   THEN [p1 EXCEPT !.crc = sempCustomComputeCrc(p1, data)]
                   ELSE p1
         IN  sempCallState(p2, data)

\* sempAllocateParseStructure without the minimum size adjustment.
sempAllocateParseStructure_KeepsLength(bufferLength) == bufferLength

\* sempAllocateParseStructure raises a short bufferLength to the minimum.
sempAllocateParseStructure(bufferLength) ==
    IF bufferLength < SEMP_MINIMUM_BUFFER_LENGTH
    THEN SEMP_MINIMUM_BUFFER_LENGTH
    ELSE bufferLength

\* The parse state sempBeginParser returns; the state "NULL" stands for the
\* null pointer.  The parser table, the names table (of the same count) and
\* the parser name are supplied, and the allocation succeeds.
sempBeginParser(parsersCount, bufferLength, eomCallback, badCrcCallback, printError, printDebug) ==
    IF ~eomCallback \/ parsersCount = 0
    THEN [state |-> "NULL"]
    ELSE
    [state |-> "sempFirstByte",
     parser_type |-> 0,
     parsers_count |-> parsersCount,
     computeCrc |-> "NULL",
     crc |-> U32Zero,
     buffer |-> [i \in 1..sempAllocateParseStructure(bufferLength) |-> 0],
     msg_length |-> 0,
     buffer_length |-> sempAllocateParseStructure(bufferLength),
     badCrc |-> badCrcCallback,
     printError |-> printError,
     printDebug |-> printDebug,
     scratchPad |-> [custom |-> [crc |-> U32Zero, bytesRemaining |-> 0]],
     sinks |-> <<>>,
     ret |-> FALSE,
     offered |-> FALSE,
     consulted |-> <<>>,
     badCrcResult |-> FALSE]

---------------------------------------------------------------------------
(* Draft "bt": src/src/semp_parser.c with src/single_parser/semp_parser.h, *)
(* the single-protocol BT parser.  Its sempFirstByte, sempPrintf,          *)
(* sempInitParser and sempProcessByte carry the prefix single_ here, the  *)
(* names being taken by the "semp" draft.  printDebug is always set by     *)
(* sempInitParser and the draft has no error sink.                         *)

SEMP_HEADER_LENGTH == 20

SEMP_CRC_SIZE == 4

\* sizeof(SEMP_MESSAGE_HEADER)
SEMP_MESSAGE_HEADER_SIZE == 20

single_sempPrintf(p) == Call(p, [sink |-> "printDebug"])

\* if (parse->length < parse->maxLength) parse->buffer[parse->length++] = data
single_StoreByte(p, data) ==
    IF p.length < p.maxLength
    THEN [p EXCEPT !.buffer[p.length + 1] = data, !.length = @ + 1]
    ELSE p

sempBluetoothComputeCrc(p, data) == Crc32Step(semp_crc32Table, p.crc, data)

sempBluetoothPreamble(p, data) ==
    IF data # \hAA THEN Return(p, FALSE)
    ELSE LET p1 == [p EXCEPT !.crc = U32Ones,
                             !.computeCrc = "sempBluetoothComputeCrc"]
             p2 == [p1 EXCEPT !.crc = sempBluetoothComputeCrc(p1, data)]
         IN  [single_StoreByte(p2, data) EXCEPT !.state = "sempBluetoothSync2",
                                                 !.ret = TRUE]

\* Resets length and crc; parse->state is left as it was.
single_sempFirstByte(p, data) ==
    sempBluetoothPreamble([p EXCEPT !.length = 0, !.crc = U32Zero,
                                    !.offered = TRUE,
                                    !.consulted = Append(@, 0)], data)

sempBluetoothSync2(p, data) ==
    IF data # \h44 THEN single_sempFirstByte(p, data)
    ELSE LET p1 == [p EXCEPT !.crc = sempBluetoothComputeCrc(p, data)]
         IN  [single_StoreByte(p1, data) EXCEPT !.state = "sempBluetoothSync3",
                                                 !.ret = TRUE]

sempBluetoothSync3(p, data) ==
    IF data # \h18 THEN single_sempFirstByte(p, data)
    ELSE LET p1 == [p EXCEPT !.crc = sempBluetoothComputeCrc(p, data)]
         IN  [single_StoreByte(p1, data) EXCEPT !.state = "sempBluetoothReadHeader",
                                                 !.ret = TRUE]

sempBluetoothReadHeader(p, data) ==
    LET p1 == single_StoreByte([p EXCEPT !.crc = sempBluetoothComputeCrc(p, data)],
                               data)
        headerLength == p1.buffer[4]
        messageLength == p1.buffer[13] + 256 * p1.buffer[14]
        messageType == p1.buffer[18]
        inverted == Xor32(p1.crc, U32Ones)
    IN  IF p1.length < SEMP_MESSAGE_HEADER_SIZE THEN Return(p1, TRUE)
        ELSE IF headerLength # SEMP_HEADER_LENGTH
        THEN [single_sempPrintf(p1) EXCEPT !.state = "sempFirstByte",
                                           !.ret = FALSE]
        ELSE IF messageLength = 0
        THEN [p1 EXCEPT !.scratchPad.bluetooth.bytesRemaining = SEMP_CRC_SIZE,
                        !.type = messageType,
                        !.crc = inverted,
                        !.scratchPad.bluetooth.crc = inverted,
                        !.state = "sempBluetoothReadCrc",
                        !.ret = TRUE]
        ELSE [p1 EXCEPT !.scratchPad.bluetooth.bytesRemaining = messageLength,
                        !.type = messageType,
                        !.state = "sempBluetoothReadData",
                        !.ret = TRUE]

sempBluetoothReadData(p, data) ==
    LET p1 == single_StoreByte([p EXCEPT !.crc = sempBluetoothComputeCrc(p, data)],
                               data)
        remaining == Dec16(p1.scratchPad.bluetooth.bytesRemaining)
        inverted == Xor32(p1.crc, U32Ones)
    IN  IF remaining = 0
        THEN [p1 EXCEPT !.scratchPad.bluetooth.bytesRemaining = SEMP_CRC_SIZE,
                        !.crc = inverted,
                        !.scratchPad.bluetooth.crc = inverted,
                        !.state = "sempBluetoothReadCrc",
                        !.ret = TRUE]
        ELSE [p1 EXCEPT !.scratchPad.bluetooth.bytesRemaining = remaining,
                        !.ret = TRUE]

sempBluetoothReadCrc(p, data) ==
    LET p0 == single_StoreByte(p, data)
        remaining == Dec16(p0.scratchPad.bluetooth.bytesRemaining)
        p1 == [p0 EXCEPT !.scratchPad.bluetooth.bytesRemaining = remaining]
        crcRead == IF p1.length >= SEMP_CRC_SIZE
                   THEN <<p1.buffer[p1.length], p1.buffer[p1.length - 1],
                          p1.buffer[p1.length - 2], p1.buffer[p1.length - 3]>>
                   ELSE U32Zero
        crcComputed == p1.scratchPad.bluetooth.crc
        msg == SubSeq(p1.buffer, 1, p1.length)
        good == IF p1.eomCallback
                THEN Call(p1, [sink |-> "eomCallback", type |-> p1.type, msg |-> msg])
                ELSE p1
        bad  == IF ~p1.badCrc THEN single_sempPrintf(p1)
                ELSE LET asked == Call(p1, [sink |-> "badCrc",
                                            result |-> p1.badCrcResult,
                                            msg |-> msg])
                     IN  IF ~asked.badCrcResult THEN single_sempPrintf(asked)
                         ELSE asked
    IN  IF remaining # 0 THEN Return(p1, TRUE)
        ELSE [(IF crcRead = crcComputed THEN good ELSE bad)
                 EXCEPT !.state = "sempFirstByte", !.ret = FALSE]

\* parse->state(parse, data)
single_sempProcessByte(p, data) ==
    CASE p.state = "sempFirstByte" -> single_sempFirstByte(p, data)
      [] p.state = "sempBluetoothSync2" -> sempBluetoothSync2(p, data)
      [] p.state = "sempBluetoothSync3" -> sempBluetoothSync3(p, data)
      [] p.state = "sempBluetoothReadHeader" -> sempBluetoothReadHeader(p, data)
      [] p.state = "sempBluetoothReadData" -> sempBluetoothReadData(p, data)
      [] p.state = "sempBluetoothReadCrc" -> sempBluetoothReadCrc(p, data)

\* The parse state sempInitParser leaves behind.
single_sempInitParser(maxLength, eomCallback, badCrcCallback) ==
    [state |-> "sempFirstByte",
     eomCallback |-> eomCallback,
     computeCrc |-> "NULL",
     crc |-> U32Zero,
     buffer |-> [i \in 1..maxLength |-> 0],
     length |-> 0,
     maxLength |-> maxLength,
     type |-> 0,
     badCrc |-> badCrcCallback,
     scratchPad |-> [bluetooth |-> [crc |-> U32Zero, bytesRemaining |-> 0]],
     sinks |-> <<>>,
     ret |-> FALSE,
     offered |-> FALSE,
     consulted |-> <<>>,
     badCrcResult |-> FALSE]


---------------------------------------------------------------------------
(* Draft "mp": the RTCM3, Unicore binary and Unicore hash machines of      *)
(* src/my_parser/Parse_RTCM.c, Parse_Unicore_Binary.c and                  *)
(* Parse_Unicore_Hash.c.  They work on an MP_PARSE_STATE                   *)
(* (src/src/Message_Parser.h) and are driven by mpProcessByte /            *)
(* msgp_processByte, which the headers declare and no file of the tree     *)
(* implements: mpInitParser, mpFirstByte and mpProcessByte below follow    *)
(* the dispatcher of the specification (section 4.1).  A state routine     *)
(* that returns false leaves parse->state as it is; the dispatcher then    *)
(* goes back to scanning.  mpSafePrintf / msgp_util_safePrintf have the    *)
(* contract of mmpSafePrintf, msgp_util_asciiToNibble that of              *)
(* mmpAsciiToNibble, and msgp_computeCrc32 is the table step of the other  *)
(* drafts.  The members of the scratchPad union share storage; the one     *)
(* overlap that is read before it is written (rtcm.messageLength over the  *)
(* low half of unicore.crc, little-endian host) is kept in step.           *)

MP_PROTOCOL_RTCM == 3

MP_PROTOCOL_COUNT == 6

MP_MINIMUM_BUFFER_LENGTH == 256

\* The inner loop of mpRtcmComputeCrc24: CRC-24Q, polynomial 0x1864CFB.
\* (the tests on `next` and `before` have the inner value computed first)
RECURSIVE mpRtcmCrc24Bits(_, _)
mpRtcmCrc24Bits(crc, n) ==
    IF n = 0 THEN crc
    ELSE LET next == IF 2 * crc >= 16777216
                     THEN XorBits(2 * crc, 25578747, 25)
                     ELSE 2 * crc
         IN  IF next >= 0 THEN mpRtcmCrc24Bits(next, n - 1) ELSE next

RECURSIVE mpRtcmComputeCrc24(_, _)
mpRtcmComputeCrc24(bytes, n) ==
    IF n = 0 THEN 0
    ELSE LET before == mpRtcmComputeCrc24(bytes, n - 1)
             mixed == XorBits(before, bytes[n] * 65536, 24)
         IN  IF before >= 0 /\ mixed >= 0 THEN mpRtcmCrc24Bits(mixed, 8) ELSE before

\* --- RTCM states ---

\* crc |= data: the low byte of crc is still zero here.
mpRtcmReadCrc24_3(p, data) ==
    LET p1 == [p EXCEPT !.scratchPad.rtcm.crc = @ + data]
        computedCrc == mpRtcmComputeCrc24(p1.buffer, p1.length - 3)
    IN  IF p1.scratchPad.rtcm.crc = computedCrc
        THEN Return(mmpSafePrintf(
                        EomCallback(
                            [p1 EXCEPT !.messagesProcessed[MP_PROTOCOL_RTCM] = @ + 1],
                            MP_PROTOCOL_RTCM),
                        "printDebug"),
                    FALSE)
        ELSE Return(mmpSafePrintf(
                        [p1 EXCEPT !.crcErrors[MP_PROTOCOL_RTCM] = @ + 1],
                        "printDebug"),
                    FALSE)

\* crc |= data << 8: the middle byte of crc is still zero here.
mpRtcmReadCrc24_2(p, data) ==
    [p EXCEPT !.scratchPad.rtcm.crc = @ + data * 256,
              !.state = "mpRtcmReadCrc24_3",
              !.ret = TRUE]

mpRtcmReadCrc24_1(p, data) ==
    [p EXCEPT !.scratchPad.rtcm.crc = data * 65536,
              !.state = "mpRtcmReadCrc24_2",
              !.ret = TRUE]

mpRtcmReadPayload(p, data) ==
    LET remaining == Dec16(p.scratchPad.rtcm.bytesRemaining)
    IN  [p EXCEPT !.scratchPad.rtcm.bytesRemaining = remaining,
                  !.state = IF remaining = 0 THEN "mpRtcmReadCrc24_1" ELSE @,
                  !.ret = TRUE]

mpRtcmReadLengthLow(p, data) ==
    LET messageLength == OrBits(p.scratchPad.rtcm.messageLength, data, 16)
        p1 == [p EXCEPT !.scratchPad.rtcm.messageLength = messageLength,
                        !.scratchPad.rtcm.bytesRemaining = messageLength]
    IN  IF messageLength > 1023 \/ messageLength > p1.bufferLength - p1.length - 3
        THEN Return(mmpSafePrintf(p1, "printDebug"), FALSE)
        ELSE [mmpSafePrintf(p1, "printDebug")
                 EXCEPT !.state = IF messageLength = 0 THEN "mpRtcmReadCrc24_1"
                                  ELSE "mpRtcmReadPayload",
                        !.ret = TRUE]

mpRtcmPreamble(p, data) ==
    IF data # \hD3 THEN Return(p, FALSE)
    ELSE Return(mmpSafePrintf([p EXCEPT !.computeCrc = "NULL",
                                        !.state = "mpRtcmReadLengthLow"],
                              "printDebug"),
                TRUE)

\* --- Unicore binary states ---

\* sizeof(UNICORE_BIN_HEADER), a packed structure
UNICORE_BIN_HEADER_SIZE == 20

mpUnicoreBinReadCrc(p, data) ==
    LET remaining == Dec16(p.scratchPad.unicore.bytesRemaining)
        p1 == [p EXCEPT !.scratchPad.unicore.bytesRemaining = remaining]
        \* buffer[length-4] | buffer[length-3] << 8 | ..., most significant first
        crcRead == IF p1.length >= 4
                   THEN <<p1.buffer[p1.length], p1.buffer[p1.length - 1],
                          p1.buffer[p1.length - 2], p1.buffer[p1.length - 3]>>
                   ELSE U32Zero
        crcComputed == p1.scratchPad.unicore.crc
    IN  IF remaining # 0 THEN Return(p1, TRUE)
        ELSE IF crcRead = crcComputed
        THEN Return(mmpSafePrintf(EomCallback(p1, p1.protocolIndex), "printDebug"),
                    FALSE)
        ELSE Return(IF p1.badCrc THEN BadCrcCallback(p1) ELSE p1, FALSE)

mpUnicoreBinReadPayload(p, data) ==
    LET remaining == Dec16(p.scratchPad.unicore.bytesRemaining)
        inverted == Xor32(p.crc, U32Ones)
    IN  IF remaining = 0
        THEN [p EXCEPT !.scratchPad.unicore.bytesRemaining = 4,
                       !.crc = inverted,
                       !.scratchPad.unicore.crc = inverted,
                       !.scratchPad.rtcm.messageLength = inverted[3] * 256 + inverted[4],
                       !.state = "mpUnicoreBinReadCrc",
                       !.ret = TRUE]
        ELSE [p EXCEPT !.scratchPad.unicore.bytesRemaining = remaining,
                       !.ret = TRUE]

mpUnicoreBinReadHeader(p, data) ==
    LET headerLength == p.buffer[4]
        \* uint16_t at offset 18 of the header, little-endian host
        messageLength == p.buffer[19] + 256 * p.buffer[20]
        inverted == Xor32(p.crc, U32Ones)
        p1 == mmpSafePrintf(
                  [p EXCEPT !.scratchPad.unicore.messageLength = messageLength,
                            !.scratchPad.unicore.bytesRemaining = messageLength],
                  "printDebug")
    IN  IF p.length < UNICORE_BIN_HEADER_SIZE THEN Return(p, TRUE)
        ELSE IF headerLength # \h1C
        THEN Return(mmpSafePrintf(p, "printDebug"), FALSE)
        ELSE IF messageLength = 0
        THEN [p1 EXCEPT !.scratchPad.unicore.bytesRemaining = 4,
                        !.crc = inverted,
                        !.scratchPad.unicore.crc = inverted,
                        !.scratchPad.rtcm.messageLength = inverted[3] * 256 + inverted[4],
                        !.state = "mpUnicoreBinReadCrc",
                        !.ret = TRUE]
        ELSE [p1 EXCEPT !.state = "mpUnicoreBinReadPayload", !.ret = TRUE]

mpUnicoreBinSync3(p, data) ==
    IF data # \h12 THEN Return(mmpSafePrintf(p, "printDebug"), FALSE)
    ELSE [p EXCEPT !.state = "mpUnicoreBinReadHeader", !.ret = TRUE]

mpUnicoreBinSync2(p, data) ==
    IF data # \h44 THEN Return(mmpSafePrintf(p, "printDebug"), FALSE)
    ELSE [p EXCEPT !.state = "mpUnicoreBinSync3", !.ret = TRUE]

\* msgp_unicore_bin_preamble on an MP_PARSE_STATE
mpUnicoreBinPreamble(p, data) ==
    IF data # \hAA THEN Return(p, FALSE)
    ELSE LET p1 == [p EXCEPT !.length = 1,
                             !.buffer[1] = data,
                             !.crc = U32Ones,
                             !.computeCrc = "msgp_computeCrc32"]
             p2 == [p1 EXCEPT !.crc = Crc32Step(semp_crc32Table, p1.crc, data),
                              !.state = "mpUnicoreBinSync2"]
         IN  Return(mmpSafePrintf(p2, "printDebug"), TRUE)

\* --- Unicore hash states ---

mpUnicoreHashValidateChecksum(p) ==
    LET checksum == mmpAsciiToNibble(p.buffer[p.length - 1]) * 16
                    + mmpAsciiToNibble(p.buffer[p.length])
    IN  IF checksum = LowByte(p.crc)
        THEN EomCallback(p, p.protocolIndex)
        ELSE IF p.badCrc THEN BadCrcCallback(p) ELSE p

\* Both branches validate and return false.
mpUnicoreHashLineTermination(p, data) ==
    Return(mpUnicoreHashValidateChecksum([p EXCEPT !.length = @ - 1]), FALSE)

mpUnicoreHashChecksumByte2(p, data) ==
    IF mmpAsciiToNibble(p.buffer[p.length]) >= 0
    THEN [p EXCEPT !.state = "mpUnicoreHashLineTermination", !.ret = TRUE]
    ELSE Return(mmpSafePrintf(p, "printDebug"), FALSE)

mpUnicoreHashChecksumByte1(p, data) ==
    IF mmpAsciiToNibble(p.buffer[p.length]) >= 0
    THEN [p EXCEPT !.state = "mpUnicoreHashChecksumByte2", !.ret = TRUE]
    ELSE Return(mmpSafePrintf(p, "printDebug"), FALSE)

\* UNICORE_HASH_BUFFER_OVERHEAD is 1 + 2 + 2 + 1
mpUnicoreHashFindSemicolon(p, data) ==
    IF data = 59 \/ data = 42 \* ";" or "*"
    THEN [p EXCEPT !.state = "mpUnicoreHashChecksumByte1", !.ret = TRUE]
    ELSE LET p1 == [p EXCEPT !.crc = NmeaXor(@, data)]
         IN  IF p1.length + 6 > p1.bufferLength
             THEN Return(mmpSafePrintf(p1, "printDebug"), FALSE)
             ELSE Return(p1, TRUE)

mpUnicoreHashFindFirstComma(p, data) ==
    LET p1 == [p EXCEPT !.crc = NmeaXor(@, data)]
        upper == AndNot20(data)
        nameLen == p1.length - 2
    IN  IF data # 44 \* ","
        THEN IF (upper < 65 \/ upper > 90) /\ (data < 48 \/ data > 57)
             THEN Return(mmpSafePrintf(p1, "printDebug"), FALSE)
             ELSE Return(p1, TRUE)
        ELSE Return((IF nameLen > 0 /\ nameLen < 31
                     THEN mmpSafePrintf([p1 EXCEPT !.state = "mpUnicoreHashFindSemicolon"],
                                        "printDebug")
                     ELSE [p1 EXCEPT !.state = "mpUnicoreHashFindSemicolon"]),
                    TRUE)

\* msgp_unicore_hash_preamble
msgp_unicore_hash_preamble(p, data) ==
    IF data # 35 \* "#"
    THEN Return(p, FALSE)
    ELSE Return(mmpSafePrintf([p EXCEPT !.length = 1,
                                        !.buffer[1] = data,
                                        !.crc = U32Zero,
                                        !.computeCrc = "NULL",
                                        !.state = "mpUnicoreHashFindFirstComma"],
                              "printDebug"),
                TRUE)

\* --- dispatcher (specification, section 4.1) ---

\* Scanning: length, crc and protocol are cleared, the byte is stored, and
\* the registry <<RTCM, Unicore binary, Unicore hash>> is asked in order.
mpFirstByte(p, data) ==
    LET p0 == [p EXCEPT !.crc = U32Zero, !.computeCrc = "NULL",
                        !.length = 1, !.buffer[1] = data,
                        !.protocolIndex = 3,
                        !.state = "mpFirstByte",
                        !.offered = TRUE]
        r == mpRtcmPreamble([p0 EXCEPT !.consulted = Append(@, 0)], data)
        b == mpUnicoreBinPreamble([r EXCEPT !.consulted = Append(@, 1)], data)
        h == msgp_unicore_hash_preamble([b EXCEPT !.consulted = Append(@, 2)], data)
    IN  IF r.ret THEN [r EXCEPT !.protocolIndex = 0]
        ELSE IF b.ret THEN [b EXCEPT !.protocolIndex = 1]
        ELSE IF h.ret THEN [h EXCEPT !.protocolIndex = 2]
        ELSE h

\* parse->state(parse, data)
mpCallState(p, data) ==
    CASE p.state = "mpFirstByte" -> mpFirstByte(p, data)
      [] p.state = "mpRtcmReadLengthLow" -> mpRtcmReadLengthLow(p, data)
      [] p.state = "mpRtcmReadPayload" -> mpRtcmReadPayload(p, data)
      [] p.state = "mpRtcmReadCrc24_1" -> mpRtcmReadCrc24_1(p, data)
      [] p.state = "mpRtcmReadCrc24_2" -> mpRtcmReadCrc24_2(p, data)
      [] p.state = "mpRtcmReadCrc24_3" -> mpRtcmReadCrc24_3(p, data)
      [] p.state = "mpUnicoreBinSync2" -> mpUnicoreBinSync2(p, data)
      [] p.state = "mpUnicoreBinSync3" -> mpUnicoreBinSync3(p, data)
      [] p.state = "mpUnicoreBinReadHeader" -> mpUnicoreBinReadHeader(p, data)
      [] p.state = "mpUnicoreBinReadPayload" -> mpUnicoreBinReadPayload(p, data)
      [] p.state = "mpUnicoreBinReadCrc" -> mpUnicoreBinReadCrc(p, data)
      [] p.state = "mpUnicoreHashFindFirstComma" -> mpUnicoreHashFindFirstComma(p, data)
      [] p.state = "mpUnicoreHashFindSemicolon" -> mpUnicoreHashFindSemicolon(p, data)
      [] p.state = "mpUnicoreHashChecksumByte1" -> mpUnicoreHashChecksumByte1(p, data)
      [] p.state = "mpUnicoreHashChecksumByte2" -> mpUnicoreHashChecksumByte2(p, data)
      [] p.state = "mpUnicoreHashLineTermination" -> mpUnicoreHashLineTermination(p, data)

\* The byte is appended, the streaming CRC (if the protocol has one) is
\* updated, and the state routine runs.  When the routine returns false the
\* session goes back to scanning and, if `reoffer`, the byte is offered to
\* the registry; the headers do not say which.
mpProcessByte(p, data, reoffer) ==
    IF p.length >= p.bufferLength
    THEN mpFirstByte(mmpSafePrintf(p, "printError"), data)
    ELSE LET p1 == [p EXCEPT !.buffer[p.length + 1] = data, !.length = @ + 1]
             p2 == IF p1.computeCrc = "msgp_computeCrc32"
                   THEN [p1 EXCEPT !.crc = Crc32Step(semp_crc32Table, p1.crc, data)]
                   ELSE p1
             q == mpCallState(p2, data)
         IN  IF q.ret \/ p2.state = "mpFirstByte" THEN q
             ELSE IF reoffer THEN mpFirstByte(q, data)
             ELSE [q EXCEPT !.state = "mpFirstByte"]

mpInitParser(bufferLength, eomCallback, badCrcCallback, printError, printDebug) ==
    IF ~eomCallback \/ bufferLength < MP_MINIMUM_BUFFER_LENGTH
    THEN [state |-> "NULL"]
    ELSE
    [state |-> "mpFirstByte",
     protocolIndex |-> 3,
     computeCrc |-> "NULL",
     crc |-> U32Zero,
     buffer |-> [i \in 1..bufferLength |-> 0],
     length |-> 0,
     bufferLength |-> bufferLength,
     badCrc |-> badCrcCallback,
     printError |-> printError,
     printDebug |-> printDebug,
     scratchPad |-> [rtcm |-> [messageLength |-> 0, bytesRemaining |-> 0, crc |-> 0],
                     unicore |-> [crc |-> U32Zero, bytesRemaining |-> 0,
                                  messageLength |-> 0]],
     messagesProcessed |-> [t \in 0..(MP_PROTOCOL_COUNT - 1) |-> 0],
     crcErrors |-> [t \in 0..(MP_PROTOCOL_COUNT - 1) |-> 0],
     oob |-> 0,
     sinks |-> <<>>,
     ret |-> FALSE,
     offered |-> FALSE,
     consulted |-> <<>>,
     badCrcResult |-> FALSE]
---------------------------------------------------------------------------
(* Input streams.  A stream is a concatenation of named segments: frames   *)
(* of the demos and tests, damaged frames, and noise.                      *)

\* The LED-control frame of the demos (2 payload bytes), CRC correct.
LedFrame ==
    <<\hAA, \h44, \h18, \h14, \h01, \h00, \h00, \h00, \h00, \h00, \h00,
      \h00, \h02, \h00, \h00, \h00, \h00, \h00, \h00, \h00, \h01, \h00,
      \hC4, \hD8, \hDB, \h6B>>

\* The same frame with its last CRC byte changed (robust_parser_demo.c).
LedFrameBadCrc ==
    <<\hAA, \h44, \h18, \h14, \h01, \h00, \h00, \h00, \h00, \h00, \h00,
      \h00, \h02, \h00, \h00, \h00, \h00, \h00, \h00, \h00, \h01, \h00,
      \hC4, \hD8, \hDB, \h00>>

\* A BT frame with message_length 0 and message type 03 (status query), CRC correct.
EmptyFrame ==
    <<\hAA, \h44, \h18, \h14, \h03, \h00, \h00, \h00, \h00, \h00, \h00,
      \h00, \h00, \h00, \h00, \h00, \h00, \h03, \h00, \h00, \h53, \h8C,
      \h88, \hFB>>

\* A BT frame with 16 payload bytes, CRC correct (40 bytes in all).
Frame16 ==
    <<\hAA, \h44, \h18, \h14, \h02, \h00, \h00, \h00, \h00, \h00, \h00,
      \h00, \h10, \h00, \h00, \h00, \h00, \h00, \h00, \h00, \h01, \h02,
      \h03, \h04, \h05, \h06, \h07, \h08, \h09, \h0A, \h0B, \h0C, \h0D,
      \h0E, \h0F, \h10, \hE2, \h4E, \h35, \h83>>

\* Sync and header_len 0x15: the first 19 bytes of a header that fails.
BadHeader19 ==
    <<\hAA, \h44, \h18, \h15, \h00, \h00, \h00, \h00, \h00, \h00, \h00,
      \h00, \h00, \h00, \h00, \h00, \h00, \h00, \h00>>

\* The noise bytes of custom_parser/main.cpp.
Noise ==
    <<\hDE, \hAD, \hBE, \hEF, \h12, \h34, \h56, \h78>>

\* The first two sync bytes of a BT frame and nothing more.
FalseSync ==
    <<\hAA, \h44>>

\* "$GPZDA,12*hh\r\n" with the correct checksum.
NmeaSentence ==
    <<\h24, \h47, \h50, \h5A, \h44, \h41, \h2C, \h31, \h32, \h2A, \h36,
      \h37, \h0D, \h0A>>

\* "$GPGGA,12*FF\r\n": the checksum does not match.
NmeaBadSum ==
    <<\h24, \h47, \h50, \h47, \h47, \h41, \h2C, \h31, \h32, \h2A, \h46,
      \h46, \h0D, \h0A>>

\* "$GPGGA,12*G": the first checksum character is no hex digit.
NmeaBadHex ==
    <<\h24, \h47, \h50, \h47, \h47, \h41, \h2C, \h31, \h32, \h2A, \h47>>

\* "$GP!": a sentence name with an invalid character.
NmeaBadName ==
    <<\h24, \h47, \h50, \h21>>

\* "$" and a 16-letter sentence name.
NmeaLongName ==
    <<\h24, \h41, \h42, \h43, \h44, \h45, \h46, \h47, \h48, \h49, \h4A,
      \h4B, \h4C, \h4D, \h4E, \h4F, \h50>>

\* UBX NAV-STATUS with no payload (robust_parser_demo.c), checksum correct.
UbxNavStatus ==
    <<\hB5, \h62, \h01, \h03, \h00, \h00, \h04, \h0D>>

\* UBX class 01 id 07 with 4 payload bytes, checksum correct.
UbxNavPvt ==
    <<\hB5, \h62, \h01, \h07, \h04, \h00, \h00, \h00, \h00, \h00, \h0C,
      \h51>>

\* The valid_ublox fixture of custom_parser/main.cpp: CK_A does not match.
UbxBadA ==
    <<\hB5, \h62, \h01, \h07, \h04, \h00, \h00, \h00, \h00, \h00, \h16,
      \hD2>>

\* The same frame with CK_A correct and CK_B wrong.
UbxBadB ==
    <<\hB5, \h62, \h01, \h07, \h04, \h00, \h00, \h00, \h00, \h00, \h0C,
      \h00>>

\* An RTCM3 frame with 2 payload bytes, CRC24Q correct.
RtcmFrame ==
    <<\hD3, \h00, \h02, \h43, \h50, \h06, \hA2, \h7E>>

Filler(n, byte) == [i \in 1..n |-> byte]

\* XOR of bytes[lo..hi], by halves
RECURSIVE XorRange(_, _, _)
XorRange(bytes, lo, hi) ==
    IF lo > hi THEN 0
    ELSE IF lo = hi THEN bytes[lo]
    ELSE Xor8(XorRange(bytes, lo, (lo + hi) \div 2),
              XorRange(bytes, (lo + hi) \div 2 + 1, hi))

\* "$" body "*hh\r\n" with hh the XOR of the body
NmeaWrap(body) ==
    LET sum == XorRange(body, 1, Len(body))
        hex == [n \in 0..15 |-> IF n < 10 THEN 48 + n ELSE 55 + n]
    IN  <<\h24>> \o body
          \o <<\h2A, hex[sum \div 16], hex[sum % 16]>>
          \o <<\h0D, \h0A>>

\* The first segment of a stream is one of these; capacity is the session's
\* buffer length, which the over-long segments are sized against.
Bytes(name, capacity) ==
    CASE name = "LedFrame" -> LedFrame
      [] name = "LedFrameBadCrc" -> LedFrameBadCrc
      [] name = "EmptyFrame" -> EmptyFrame
      [] name = "Frame16" -> Frame16
      [] name = "LedPrefix" -> SubSeq(LedFrame, 1, 21)
      [] name = "BadHeader19" -> BadHeader19
      [] name = "Noise" -> Noise
      [] name = "FalseSync" -> FalseSync
      \* the three sync bytes of a Unicore binary message
      [] name = "UnicoreSync" -> FalseSync \o <<\h12>>
      \* a header announcing 65535 bytes and filler up to a full buffer
      [] name = "LongFrame" ->
             <<\hAA, \h44, \h18, \h14, \h01, \h00, \h00, \h00, \h00, \h00,
               \h00, \h00, \hFF, \hFF, \h00, \h00, \h00, \h00, \h00, \h00>>
                 \o Filler(capacity - MMP_SEMP_HEADER_SIZE, 0)
      [] name = "NmeaSentence" -> NmeaSentence
      [] name = "NmeaNoTerminator" -> SubSeq(NmeaSentence, 1, Len(NmeaSentence) - 2)
      [] name = "NmeaCr" -> SubSeq(NmeaSentence, 1, Len(NmeaSentence) - 1)
      [] name = "NmeaNoHex" -> SubSeq(NmeaSentence, 1, Len(NmeaSentence) - 4)
      [] name = "NmeaBadSumNoTerminator" -> SubSeq(NmeaBadSum, 1, Len(NmeaBadSum) - 2)
      [] name = "NmeaBadSum" -> NmeaBadSum
      \* the sentence up to "*" and the control character DLE (0x10)
      [] name = "NmeaControlHex" ->
             SubSeq(NmeaSentence, 1, Len(NmeaSentence) - 4) \o <<\h10>>
      [] name = "NmeaBadHex" -> NmeaBadHex
      [] name = "NmeaBadName" -> NmeaBadName
      [] name = "NmeaLongName" -> NmeaLongName
      \* a correct sentence that ends exactly at the end of the buffer
      [] name = "NmeaFill" -> NmeaWrap(<<\h47, \h50, \h2C>> \o Filler(capacity - 9, 65))
      \* a sentence body that leaves less than the 5 bytes of headroom
      [] name = "NmeaTooLong" -> <<\h24, \h47, \h50, \h2C>> \o Filler(capacity - 9, 65)
      [] name = "UbxNavStatus" -> UbxNavStatus
      [] name = "UbxNavPvt" -> UbxNavPvt
      [] name = "UbxBadA" -> UbxBadA
      [] name = "UbxBadB" -> UbxBadB
      [] name = "UbxPrefix" -> SubSeq(UbxNavPvt, 1, 8)
      \* a header announcing 65535 bytes and filler up to a full buffer
      [] name = "UbxLong" ->
             <<\hB5, \h62, \h01, \h07, \hFF, \hFF>> \o Filler(capacity - 6, 0)
      [] name = "RtcmFrame" -> RtcmFrame
      \* D3, length bytes 04 02 (a reserved bit set), payload, CRC-24Q
      [] name = "RtcmReserved" -> <<\hD3, \h04, \h02, \h43, \h50, \hDE, \h87, \h36>>
      \* D3, one length byte, payload, CRC-24Q of the bytes before it
      [] name = "RtcmByteLength" -> <<\hD3, \h02, \h43, \h50, \hDA, \hE5, \h58>>
      [] name = "RtcmByteLength1" -> <<\hD3, \h01, \h43, \h34, \h5F, \h27>>
      \* AA 44 12, header length 0x1C, a header of 28 bytes with the payload
      \* length 2 at offset 18, payload 43 50, CRC-32 of the 30 bytes
      [] name = "UniBinFrame" ->
             <<\hAA, \h44, \h12, \h1C, \h00, \h2A, \h00, \h00, \h00, \h00,
               \h00, \h00, \h00, \h00, \h00, \h00, \h00, \h00, \h02, \h00,
               \h00, \h00, \h00, \h00, \h00, \h00, \h00, \h00,
               \h43, \h50, \hDF, \h3B, \hF3, \h04>>
      \* the same with a header of sizeof(UNICORE_BIN_HEADER) = 20 bytes
      [] name = "UniBinShort" ->
             <<\hAA, \h44, \h12, \h1C, \h00, \h2A, \h00, \h00, \h00, \h00,
               \h00, \h00, \h00, \h00, \h00, \h00, \h00, \h00, \h02, \h00,
               \h43, \h50, \hF8, \h5A, \h6A, \hC1>>
      \* "#MODE,1*1E\r\n": two digits, the XOR of "MODE,1"
      [] name = "HashMode" ->
             <<\h23, \h4D, \h4F, \h44, \h45, \h2C, \h31, \h2A, \h31, \h45,
               \h0D, \h0A>>
      \* "#VER,1*1C4E032E\r\n": eight digits, the CRC-32 (not inverted) of "VER,1"
      [] name = "HashVersion" ->
             <<\h23, \h56, \h45, \h52, \h2C, \h31, \h2A, \h31, \h43, \h34,
               \h45, \h30, \h33, \h32, \h45, \h0D, \h0A>>
      \* "#VER,1*5C\r\n": two digits, the XOR of "VER,1"
      [] name = "HashVersionXor" ->
             <<\h23, \h56, \h45, \h52, \h2C, \h31, \h2A, \h35, \h43, \h0D, \h0A>>

\* The segments each draft is fed: those of the protocols it registers.
Segments(d) ==
    IF d = "mmp"
    THEN {"LedFrame", "LedFrameBadCrc", "EmptyFrame", "Frame16", "LedPrefix",
          "BadHeader19", "Noise", "FalseSync", "UnicoreSync", "LongFrame"}
         \cup {"NmeaSentence", "NmeaNoTerminator", "NmeaCr", "NmeaNoHex",
               "NmeaBadSum", "NmeaBadSumNoTerminator", "NmeaBadHex",
               "NmeaControlHex",
               "NmeaBadName", "NmeaLongName", "NmeaFill", "NmeaTooLong"}
         \cup {"UbxNavStatus", "UbxNavPvt", "UbxPrefix", "UbxBadA", "UbxBadB",
               "UbxLong"}
         \cup {"RtcmFrame"}
    ELSE IF d = "mp"
    THEN {"RtcmFrame", "RtcmReserved", "RtcmByteLength", "RtcmByteLength1",
          "UniBinFrame", "UniBinShort", "HashMode", "HashVersion",
          "HashVersionXor", "Noise"}
    ELSE {"LedFrame", "LedFrameBadCrc", "EmptyFrame", "Frame16", "LedPrefix",
          "BadHeader19", "Noise", "FalseSync", "UnicoreSync", "LongFrame"}

\* The segments that may follow the first one.
Followers(d) ==
    IF d = "mmp"
    THEN {"LedFrame", "LedFrameBadCrc", "NmeaSentence", "NmeaBadSum",
          "UbxNavStatus", "RtcmFrame", "Noise"}
    ELSE IF d = "mp"
    THEN {"RtcmFrame", "RtcmByteLength1", "UniBinShort", "HashMode"}
    ELSE {"LedFrame", "LedFrameBadCrc", "EmptyFrame", "Noise"}

MaxFollowers == 1

BufferSlack == 0

SingleMaxLength == 32

\* The longest buffer handed to one call of a buffer entry point.
MaxChunk == 3

RECURSIVE FollowerSeqs(_, _)
FollowerSeqs(d, n) ==
    IF n = 0 THEN {<<>>}
    ELSE FollowerSeqs(d, n - 1)
         \cup {Append(s, f) : s \in FollowerSeqs(d, n - 1), f \in Followers(d)}

RECURSIVE Flatten(_, _)
Flatten(names, capacity) ==
    IF names = <<>> THEN <<>>
    ELSE Bytes(Head(names), capacity) \o Flatten(Tail(names), capacity)

---------------------------------------------------------------------------
(* The state machine.                                                      *)

VARIABLES
    draft,   \* which draft of the framer runs
    parse,   \* its parse state
    segs,    \* the names of the segments the input stream is made of
    input,   \* the input stream, a sequence of bytes
    pos,     \* the number of bytes fed so far
    log,     \* every eomCallback / badCrc call so far, with the byte index
    offers,  \* the indices of the bytes that were offered to the preambles
    config,  \* the arguments the session was (or is to be) created with
    twin     \* a second session of the same draft, when there is one

vars == <<draft, parse, segs, input, pos, log, offers, config, twin>>

\* The buffer length each draft's session is created with.
BufferLengthOf(d) ==
    CASE d = "mmp" -> MMP_MINIMUM_BUFFER_LENGTH + BufferSlack
      [] d = "semp" -> SEMP_MINIMUM_BUFFER_LENGTH + BufferSlack
      [] d = "bt" -> SingleMaxLength
      [] d = "mp" -> MP_MINIMUM_BUFFER_LENGTH + BufferSlack

\* Print sinks are configured, as in every demo; badCrc may be NULL.
InitParse(d, badCrcCallback) ==
    CASE d = "mmp" -> mmpInitParser(BufferLengthOf(d), TRUE, badCrcCallback, TRUE, TRUE)
      [] d = "semp" -> sempBeginParser(Len(semp_parsersTable), BufferLengthOf(d),
                                       TRUE, badCrcCallback, TRUE, TRUE)
      [] d = "bt" -> single_sempInitParser(BufferLengthOf(d), TRUE, badCrcCallback)
      [] d = "mp" -> mpInitParser(BufferLengthOf(d), TRUE, badCrcCallback, TRUE, TRUE)

Init ==
    /\ draft \in {"mmp", "semp", "bt"}
    /\ \E b \in BOOLEAN :
           /\ parse = InitParse(draft, b)
           /\ config = [bufferLength |-> BufferLengthOf(draft),
                        eomCallback |-> TRUE,
                        badCrcCallback |-> b,
                        parsersCount |-> IF draft = "semp"
                                         THEN Len(semp_parsersTable) ELSE 0]
    /\ segs \in {<<a>> \o s : a \in Segments(draft),
                              s \in FollowerSeqs(draft, MaxFollowers)}
    /\ input = Flatten(segs, BufferLengthOf(draft))
    /\ pos = 0
    /\ log = <<>>
    /\ offers = {}
    /\ twin = <<>>

\* The reports of one call, stamped with the index of the byte that caused them.
Reports(p, at) ==
    LET kept == SelectSeq(p.sinks, LAMBDA e : e.sink \in {"eomCallback", "badCrc"})
    IN  [i \in 1..Len(kept) |->
            [sink |-> kept[i].sink, msg |-> kept[i].msg, at |-> at,
             type |-> IF kept[i].sink = "eomCallback" THEN kept[i].type ELSE -1,
             result |-> IF kept[i].sink = "badCrc" THEN kept[i].result ELSE FALSE]]

\* The parse state as a call finds it: nothing fired yet, and `answer` is
\* what the user's badCrc callback returns if the call asks it.
Armed(answer) ==
    [parse EXCEPT !.sinks = <<>>, !.offered = FALSE, !.consulted = <<>>,
                  !.badCrcResult = answer]

\* The caller's loop around one call of the byte entry point: `after` is the
\* parse state the call leaves; its reports go to the log.
Feed(after) ==
    /\ parse' = [after EXCEPT !.badCrcResult = FALSE]
    /\ log' = log \o Reports(after, pos + 1)
    /\ offers' = IF after.offered THEN offers \cup {pos + 1} ELSE offers
    /\ pos' = pos + 1
    /\ UNCHANGED <<draft, segs, input, config, twin>>

MmpProcessByte ==
    /\ draft = "mmp"
    /\ pos < Len(input)
    /\ \E answer \in BOOLEAN :
           Feed(mmpProcessByte(Armed(answer), input[pos + 1]))

SempParseNextByte ==
    /\ draft = "semp"
    /\ pos < Len(input)
    /\ \E answer \in BOOLEAN :
           Feed(sempParseNextByte(Armed(answer), input[pos + 1]))

SingleSempProcessByte ==
    /\ draft = "bt"
    /\ pos < Len(input)
    /\ \E answer \in BOOLEAN :
           Feed(single_sempProcessByte(Armed(answer), input[pos + 1]))

\* The loop of mmpProcessBuffer over data[run.i .. length-1].  A run holds
\* the session (parse), the count the function returns (processed), the
\* number of bytes handed to mmpProcessByte (i), and, for the log, the
\* reports and offers of those calls; `at` is the stream index of data[0]
\* and `answer` what the badCrc callback returns during the run.
RECURSIVE mmpProcessBuffer(_, _, _)
mmpProcessBuffer(run, data, length) ==
    IF run.i >= length THEN run
    ELSE LET after == mmpProcessByte(
                          [run.parse EXCEPT !.sinks = <<>>, !.offered = FALSE,
                                            !.consulted = <<>>,
                                            !.badCrcResult = run.answer],
                          data[run.i + 1])
             next == [run EXCEPT
                         !.parse = [after EXCEPT !.badCrcResult = FALSE],
                         !.reports = @ \o Reports(after, run.at + run.i + 1),
                         !.offers = IF after.offered
                                    THEN @ \cup {run.at + run.i + 1} ELSE @,
                         !.i = @ + 1,
                         !.processed = @ + 1]
         IN  IF after.ret
             THEN mmpProcessBuffer(next, data, length)
             ELSE next

\* The loop of semp_parser.c's sempProcessBuffer: the byte whose call
\* returns false is not counted.
RECURSIVE single_sempProcessBuffer(_, _, _)
single_sempProcessBuffer(run, data, length) ==
    IF run.i >= length THEN run
    ELSE LET after == single_sempProcessByte(
                          [run.parse EXCEPT !.sinks = <<>>, !.offered = FALSE,
                                            !.consulted = <<>>,
                                            !.badCrcResult = run.answer],
                          data[run.i + 1])
             next == [run EXCEPT
                         !.parse = [after EXCEPT !.badCrcResult = FALSE],
                         !.reports = @ \o Reports(after, run.at + run.i + 1),
                         !.offers = IF after.offered
                                    THEN @ \cup {run.at + run.i + 1} ELSE @,
                         !.i = @ + 1]
         IN  IF after.ret
             THEN single_sempProcessBuffer(
                      [next EXCEPT !.processed = @ + 1], data, length)
             ELSE next

\* One call of mmpProcessBuffer with the next bytes of the stream, at most
\* MaxChunk of them.  The stream goes on after the last byte the call handed
\* to mmpProcessByte.
MmpProcessBuffer ==
    /\ draft = "mmp"
    /\ pos < Len(input)
    /\ \E answer \in BOOLEAN :
           LET length == IF Len(input) - pos < MaxChunk
                         THEN Len(input) - pos ELSE MaxChunk
           IN  \E run \in {mmpProcessBuffer(
                              [parse |-> parse, answer |-> answer, at |-> pos,
                               i |-> 0, processed |-> 0, reports |-> <<>>,
                               offers |-> {}],
                              SubSeq(input, pos + 1, pos + length), length)} :
                   /\ parse' = run.parse
                   /\ log' = log \o run.reports
                   /\ offers' = offers \cup run.offers
                   /\ pos' = pos + run.i
                   /\ UNCHANGED <<draft, segs, input, config, twin>>

SingleSempProcessBuffer ==
    /\ draft = "bt"
    /\ pos < Len(input)
    /\ \E answer \in BOOLEAN :
           LET length == IF Len(input) - pos < MaxChunk
                         THEN Len(input) - pos ELSE MaxChunk
           IN  \E run \in {single_sempProcessBuffer(
                              [parse |-> parse, answer |-> answer, at |-> pos,
                               i |-> 0, processed |-> 0, reports |-> <<>>,
                               offers |-> {}],
                              SubSeq(input, pos + 1, pos + length), length)} :
                   /\ parse' = run.parse
                   /\ log' = log \o run.reports
                   /\ offers' = offers \cup run.offers
                   /\ pos' = pos + run.i
                   /\ UNCHANGED <<draft, segs, input, config, twin>>

\* A session of the RTCM / Unicore machines: the registry and the streams
\* are those of draft "mp".
MpInit ==
    /\ draft = "mp"
    /\ \E b \in BOOLEAN :
           /\ parse = InitParse(draft, b)
           /\ config = [bufferLength |-> BufferLengthOf(draft),
                        eomCallback |-> TRUE,
                        badCrcCallback |-> b,
                        parsersCount |-> 0]
    /\ segs \in {<<a>> \o s : a \in Segments(draft),
                              s \in FollowerSeqs(draft, MaxFollowers)}
    /\ input = Flatten(segs, BufferLengthOf(draft))
    /\ pos = 0
    /\ log = <<>>
    /\ offers = {}
    /\ twin = <<>>

MpProcessByte ==
    /\ draft = "mp"
    /\ pos < Len(input)
    /\ \E answer \in BOOLEAN, reoffer \in BOOLEAN :
           Feed(mpProcessByte(Armed(answer), input[pos + 1], reoffer))

MpSpec == MpInit /\ [][MpProcessByte]_vars

\* The stream is handed over one byte per call.
Next ==
    \/ MmpProcessByte
    \/ SempParseNextByte
    \/ SingleSempProcessByte

Spec == Init /\ [][Next]_vars

\* The stream is handed over by byte calls and buffer calls in any order.
BufferSpec ==
    Init /\ [][Next \/ MmpProcessBuffer \/ SingleSempProcessBuffer]_vars


---------------------------------------------------------------------------
(* Session creation.  Before the call there is no session (state           *)
(* "uninitialized"); config holds the arguments of the call.  The print    *)
(* sinks are configured.  parsersCount is an argument of sempBeginParser   *)
(* only: the table of multi_protocol_parser.c is built in, and             *)
(* semp_parser.c has none.                                                 *)

CreateInit ==
    /\ draft \in {"mmp", "semp", "bt"}
    /\ config \in [bufferLength : {0, MMP_MINIMUM_BUFFER_LENGTH - 1,
                                   MMP_MINIMUM_BUFFER_LENGTH,
                                   MMP_MINIMUM_BUFFER_LENGTH + 1},
                   eomCallback : BOOLEAN,
                   badCrcCallback : BOOLEAN,
                   parsersCount : IF draft = "semp"
                                  THEN 0..Len(semp_parsersTable) ELSE {0}]
    /\ parse = [state |-> "uninitialized"]
    /\ segs = <<>>
    /\ input = <<>>
    /\ pos = 0
    /\ log = <<>>
    /\ offers = {}
    /\ twin = <<>>

MmpInitParser ==
    /\ draft = "mmp"
    /\ parse.state = "uninitialized"
    /\ parse' = mmpInitParser(config.bufferLength, config.eomCallback,
                              config.badCrcCallback, TRUE, TRUE)
    /\ UNCHANGED <<draft, segs, input, pos, log, offers, config, twin>>

SempBeginParser ==
    /\ draft = "semp"
    /\ parse.state = "uninitialized"
    /\ parse' = sempBeginParser(config.parsersCount, config.bufferLength,
                                config.eomCallback, config.badCrcCallback,
                                TRUE, TRUE)
    /\ UNCHANGED <<draft, segs, input, pos, log, offers, config, twin>>

SingleSempInitParser ==
    /\ draft = "bt"
    /\ parse.state = "uninitialized"
    /\ parse' = single_sempInitParser(config.bufferLength, config.eomCallback,
                                      config.badCrcCallback)
    /\ UNCHANGED <<draft, segs, input, pos, log, offers, config, twin>>

CreateSpec ==
    CreateInit
        /\ [][MmpInitParser \/ SempBeginParser \/ SingleSempInitParser]_vars

---------------------------------------------------------------------------
(* Two sessions.  The caller creates two sessions of one draft, each with  *)
(* its own parse structure and buffer, and feeds each its own stream, one  *)
(* byte per call, the calls on the two in any order.  The first session is *)
(* parse / input / pos / log; twin holds the second one (parse, input,     *)
(* pos, log) and, for comparison, the run of each stream through a session *)
(* that is fed alone (alone[s], aloneLog[s]).  The members of the scratch  *)
(* union are kept apart in the parse record, so both streams are of one    *)
(* protocol.                                                               *)

TwoInit ==
    /\ draft \in {"mmp", "semp", "bt"}
    /\ \E b \in BOOLEAN, kind \in (IF draft = "mmp" THEN 1..3 ELSE {1}) :
           LET names == CASE kind = 1 -> {"LedFrame", "LedFrameBadCrc"}
                          [] kind = 2 -> {"NmeaSentence"}
                          [] kind = 3 -> {"UbxNavStatus", "UbxBadB"}
           IN  /\ parse = InitParse(draft, b)
               /\ config = [bufferLength |-> BufferLengthOf(draft),
                            eomCallback |-> TRUE,
                            badCrcCallback |-> b,
                            parsersCount |-> IF draft = "semp"
                                             THEN Len(semp_parsersTable) ELSE 0]
               /\ \E first \in names, second \in names :
                      /\ segs = <<first>>
                      /\ twin = [parse |-> InitParse(draft, b),
                                 input |-> Bytes(second, BufferLengthOf(draft)),
                                 pos |-> 0,
                                 log |-> <<>>,
                                 alone |-> <<InitParse(draft, b), InitParse(draft, b)>>,
                                 aloneLog |-> <<<<>>, <<>>>>]
    /\ input = Flatten(segs, BufferLengthOf(draft))
    /\ pos = 0
    /\ log = <<>>
    /\ offers = {}

\* The caller's loop around one byte call on session s of the two: `after`
\* is the parse state the call leaves in that session and `solitary` the one
\* the same call leaves in the session fed alone.  With `sharing`, the
\* scratch pad the two sessions point to is one object, and so is the
\* function-static lengthBytes: what the call leaves there, the other
\* session finds.
FeedOfTwo(s, after, solitary, sharing) ==
    LET settled(p) == [p EXCEPT !.badCrcResult = FALSE]
        found(p) == IF sharing
                    THEN [p EXCEPT !.scratchPad = after.scratchPad,
                                   !.lengthBytes = after.lengthBytes]
                    ELSE p
        at == IF s = 1 THEN pos + 1 ELSE twin.pos + 1
        beside == [twin EXCEPT !.alone[s] = settled(solitary),
                               !.aloneLog[s] = @ \o Reports(solitary, at)]
    IN  /\ IF s = 1
           THEN /\ parse' = settled(after)
                /\ log' = log \o Reports(after, at)
                /\ offers' = IF after.offered THEN offers \cup {at} ELSE offers
                /\ pos' = at
                /\ twin' = [beside EXCEPT !.parse = found(@)]
           ELSE /\ parse' = found(parse)
                /\ twin' = [beside EXCEPT !.parse = settled(after),
                                          !.log = @ \o Reports(after, at),
                                          !.pos = at]
                /\ UNCHANGED <<log, offers, pos>>
        /\ UNCHANGED <<draft, segs, input, config>>

\* One call of mmpProcessByte on either session with the next byte of that
\* session's stream.  Every session mmpInitParser creates points to the one
\* static scratch pad.
MmpProcessByteOfTwo ==
    /\ draft = "mmp"
    /\ \E s \in 1..2, answer \in BOOLEAN :
           LET stream == IF s = 1 THEN input ELSE twin.input
               fed == IF s = 1 THEN pos ELSE twin.pos
               arm(p) == [p EXCEPT !.sinks = <<>>, !.offered = FALSE,
                                   !.consulted = <<>>, !.badCrcResult = answer]
           IN  /\ fed < Len(stream)
               /\ \E after \in {mmpProcessByte(arm(IF s = 1 THEN parse ELSE twin.parse), stream[fed + 1])},
                     solitary \in {mmpProcessByte(arm(twin.alone[s]), stream[fed + 1])} :
                      FeedOfTwo(s, after, solitary, TRUE)

SempParseNextByteOfTwo ==
    /\ draft = "semp"
    /\ \E s \in 1..2, answer \in BOOLEAN :
           LET stream == IF s = 1 THEN input ELSE twin.input
               fed == IF s = 1 THEN pos ELSE twin.pos
               arm(p) == [p EXCEPT !.sinks = <<>>, !.offered = FALSE,
                                   !.consulted = <<>>, !.badCrcResult = answer]
           IN  /\ fed < Len(stream)
               /\ \E after \in {sempParseNextByte(arm(IF s = 1 THEN parse ELSE twin.parse), stream[fed + 1])},
                     solitary \in {sempParseNextByte(arm(twin.alone[s]), stream[fed + 1])} :
                      FeedOfTwo(s, after, solitary, FALSE)

SingleSempProcessByteOfTwo ==
    /\ draft = "bt"
    /\ \E s \in 1..2, answer \in BOOLEAN :
           LET stream == IF s = 1 THEN input ELSE twin.input
               fed == IF s = 1 THEN pos ELSE twin.pos
               arm(p) == [p EXCEPT !.sinks = <<>>, !.offered = FALSE,
                                   !.consulted = <<>>, !.badCrcResult = answer]
           IN  /\ fed < Len(stream)
               /\ \E after \in {single_sempProcessByte(arm(IF s = 1 THEN parse ELSE twin.parse), stream[fed + 1])},
                     solitary \in {single_sempProcessByte(arm(twin.alone[s]), stream[fed + 1])} :
                      FeedOfTwo(s, after, solitary, FALSE)

TwoSpec ==
    TwoInit
        /\ [][MmpProcessByteOfTwo \/ SempParseNextByteOfTwo
              \/ SingleSempProcessByteOfTwo]_vars
---------------------------------------------------------------------------
(* Vocabulary of the properties.                                           *)

Done == pos = Len(input)

Length == IF draft = "semp" THEN parse.msg_length ELSE parse.length

Capacity == BufferLengthOf(draft)

\* The sentinel state: the next byte is offered to the preambles.
Scanning == parse.state \in {"mmpFirstByte", "sempFirstByte"}

IsEom(e) == e.sink = "eomCallback"

IsBadCrc(e) == e.sink = "badCrc"

\* The on_message calls so far, in order.
Eoms == SelectSeq(log, IsEom)

\* The sinks the last call fired, in order.
Fired == parse.sinks

\* The protocol a reported type stands for in the running draft.
ProtocolOf(type) ==
    IF draft = "mmp"
    THEN CASE type = MMP_PROTOCOL_SEMP -> "BT"
           [] type = MMP_PROTOCOL_NMEA -> "NMEA"
           [] type = MMP_PROTOCOL_UBLOX -> "UBX"
           [] OTHER -> "none"
    ELSE "BT"

\* CRC-32 of bytes[1..n]: init 0xFFFFFFFF, table step, final XOR 0xFFFFFFFF.
\* (the test on `before` has the shorter prefix computed first)
RECURSIVE Crc32Run(_, _)
Crc32Run(bytes, n) ==
    IF n = 0 THEN U32Ones
    ELSE LET before == Crc32Run(bytes, n - 1)
         IN  IF Len(before) = 4
             THEN Crc32Step(mmp_crc32Table, before, bytes[n])
             ELSE before

Crc32Of(bytes) == Xor32(Crc32Run(bytes, Len(bytes)), U32Ones)

\* Fletcher-8 of bytes[lo..hi] as the pair <<ck_a, ck_b>>.
RECURSIVE Fletcher(_, _, _)
Fletcher(bytes, lo, hi) ==
    IF hi < lo THEN <<0, 0>>
    ELSE LET before == Fletcher(bytes, lo, hi - 1)
             a == (before[1] + bytes[hi]) % 256
         IN  <<a, (before[2] + a) % 256>>

\* The trailing four bytes are the little-endian CRC-32 of the bytes before.
BtIntact(msg) ==
    /\ Len(msg) >= 4
    /\ LET crc == Crc32Of(SubSeq(msg, 1, Len(msg) - 4))
           n == Len(msg)
       IN  <<msg[n], msg[n - 1], msg[n - 2], msg[n - 3]>> = crc

\* "$" body "*hh\r\n": hh, decoded as the machine decodes it, is the XOR of body.
NmeaIntact(msg) ==
    /\ Len(msg) >= 6
    /\ LET n == Len(msg)
       IN  /\ msg[n - 4] = 42
           /\ mmpAsciiToNibble(msg[n - 3]) >= 0
           /\ mmpAsciiToNibble(msg[n - 2]) >= 0
           /\ XorRange(msg, 2, n - 5)
                = 16 * mmpAsciiToNibble(msg[n - 3]) + mmpAsciiToNibble(msg[n - 2])

\* The trailing two bytes are the Fletcher-8 of CLASS..PAYLOAD.
UbxIntact(msg) ==
    /\ Len(msg) >= 8
    /\ Fletcher(msg, 3, Len(msg) - 2) = <<msg[Len(msg) - 1], msg[Len(msg)]>>

\* The integrity check of the protocol the report names, on the reported bytes.
Intact(e) ==
    CASE ProtocolOf(e.type) = "BT" -> BtIntact(e.msg)
      [] ProtocolOf(e.type) = "NMEA" -> NmeaIntact(e.msg)
      [] ProtocolOf(e.type) = "UBX" -> UbxIntact(e.msg)
      [] OTHER -> FALSE

\* on_bad_crc was asked about the frame reported by e and answered `answer`.
BadCrcAnswered(e, answer) ==
    \E i \in 1..Len(log) :
        /\ IsBadCrc(log[i])
        /\ log[i].at = e.at
        /\ log[i].result = answer

---------------------------------------------------------------------------
---------------------------------------------------------------------------
(* Wire formats: what a valid frame of each protocol is.                   *)

\* AA 44 18, header length 0x14, payload length at offset 12, CRC-32 trailer.
IsBtFrame(b) ==
    /\ Len(b) >= MMP_SEMP_HEADER_SIZE + 4
    /\ <<b[1], b[2], b[3], b[4]>> = <<170, 68, 24, 20>>
    /\ Len(b) = MMP_SEMP_HEADER_SIZE + b[13] + 256 * b[14] + 4
    /\ BtIntact(b)

\* "$", a name of letters and digits, ",", a body, "*hh", CR LF.
IsNmeaFrame(b) ==
    /\ Len(b) >= 9
    /\ b[1] = 36
    /\ \E comma \in 3..Len(b) - 5 :
           /\ b[comma] = 44
           /\ comma - 2 < MMP_MAX_SENTENCE_NAME
           /\ \A i \in 2..comma - 1 :
                  b[i] \in (48..57) \cup (65..90) \cup (97..122)
           /\ \A i \in comma + 1..Len(b) - 5 : b[i] # 42
    /\ <<b[Len(b) - 1], b[Len(b)]>> = <<13, 10>>
    /\ NmeaIntact(b)

\* D3, six reserved zero bits and a 10-bit length, payload, CRC-24Q.
IsRtcmFrame(b) ==
    /\ Len(b) >= 6
    /\ b[1] = 211
    /\ b[2] < 4
    /\ Len(b) = 6 + 256 * b[2] + b[3]
    /\ LET crc == mpRtcmComputeCrc24(b, Len(b) - 3)
       IN  <<b[Len(b) - 2], b[Len(b) - 1], b[Len(b)]>>
             = <<crc \div 65536, (crc \div 256) % 256, crc % 256>>

\* The bytes of the k-th segment of the stream and where they lie in it.
SegBytes(k) == Bytes(segs[k], Capacity)

SegStart(k) == Len(Flatten(SubSeq(segs, 1, k - 1), Capacity)) + 1

SegEnd(k) == Len(Flatten(SubSeq(segs, 1, k), Capacity))

\* The k-th segment is a valid frame, of a protocol whose preamble the draft
\* registers, that the buffer can hold.  A u-blox frame is B5 62, class, id,
\* little-endian payload length, payload, Fletcher-8.
ValidSeg(k) ==
    LET b == SegBytes(k)
    IN  /\ Len(b) < Capacity
        /\ \/ IsBtFrame(b)
           \/ /\ draft = "mmp"
              /\ \/ IsNmeaFrame(b)
                 \/ IsRtcmFrame(b)
                 \/ /\ Len(b) >= 8
                    /\ <<b[1], b[2]>> = <<181, 98>>
                    /\ Len(b) = 8 + b[5] + 256 * b[6]
                    /\ UbxIntact(b)

\* The on_message calls that handed over exactly the k-th segment.
ReportsOf(k) ==
    SelectSeq(log, LAMBDA e : /\ IsEom(e)
                              /\ e.at \in SegStart(k)..SegEnd(k)
                              /\ e.msg = SegBytes(k))

Reported(k) == Len(ReportsOf(k)) > 0


---------------------------------------------------------------------------
(* C2: for every input prefix || valid_frame || suffix whose prefix        *)
(* contains no valid frame of a registered protocol, on_message fires      *)
(* exactly once for valid_frame.                                           *)
C2_AsClaimed ==
    Done =>
        \A k \in 1..Len(segs) :
            /\ ValidSeg(k)
            /\ \A j \in 1..k - 1 : segs[j] \in
                   {"Noise", "FalseSync", "LedPrefix", "LedFrameBadCrc", "BadHeader19",
                   "NmeaNoHex", "NmeaBadSum", "NmeaBadHex", "NmeaBadName", "NmeaLongName",
                   "UbxPrefix", "UbxBadA", "UbxBadB"}
            => Len(ReportsOf(k)) = 1

(* C3: feeding frame1 || frame2, two valid frames of registered protocols, *)
(* to a scanning session makes on_message fire exactly twice, first for    *)
(* frame1 and then for frame2.                                             *)
C3_AsClaimed ==
    Done /\ Len(segs) = 2 /\ ValidSeg(1) /\ ValidSeg(2) =>
        /\ Len(Eoms) = 2
        /\ Eoms[1].msg = SegBytes(1)
        /\ Eoms[2].msg = SegBytes(2)

---------------------------------------------------------------------------
\* Segments that are strict prefixes of a valid frame (LedFrame, UbxNavPvt,
\* NmeaSentence).
StrictPrefixes ==
    {"FalseSync", "LedPrefix", "UbxPrefix", "NmeaNoHex", "NmeaNoTerminator",
     "NmeaCr"}

---------------------------------------------------------------------------
\* An on_message call was made by the same feed_byte call as the report b.
ReportedWith(b) ==
    \E i \in 1..Len(log) : IsEom(log[i]) /\ log[i].at = b.at

---------------------------------------------------------------------------
\* The last feed_byte call made a report (on_message or on_bad_crc).
ReportFired ==
    \E i \in 1..Len(Fired) : IsEom(Fired[i]) \/ IsBadCrc(Fired[i])

\* Two reports are made by different calls only if a byte was offered to the
\* preambles (a new candidate was begun) after the first and before the second,
\* and one call reports at most once through each callback.
ReportedAtMostOnce ==
    \A i, j \in 1..Len(log) :
        i < j =>
            IF log[i].at = log[j].at
            THEN log[i].sink # log[j].sink
            ELSE \E k \in offers : log[i].at <= k /\ k < log[j].at

(* C6: a frame is reported at most once: after on_message or on_bad_crc    *)
(* fires for a frame, the session is in the scanning state when the next   *)
(* byte is consumed, and no later byte causes a second report of it.       *)
C6_AsClaimed ==
    /\ ReportFired => Scanning
    /\ ReportedAtMostOnce

(* C6, amended: a frame is reported at most once: after on_message or      *)
(* on_bad_crc fires for a frame the session has returned to scanning       *)
(* before any further byte is consumed: either it is in the scanning state *)
(* when the next byte is consumed, or the byte that ended the frame was    *)
(* re-offered to the preambles in the same call and began a new candidate. *)
C6_ReportedOnce ==
    /\ ReportFired => Scanning \/ parse.offered
    /\ ReportedAtMostOnce

\* The byte that ended a reported NMEA sentence has begun the next candidate:
\* a report was made and the session is not scanning.
C6_Witness ==
    /\ ReportFired
    /\ parse.offered
    /\ ~Scanning

---------------------------------------------------------------------------
\* How many times the last feed_byte call invoked the sink `name`, and the
\* position of its first invocation among the sinks the call fired.
FiredCount(name) == Cardinality({i \in 1..Len(Fired) : Fired[i].sink = name})

FirstFired(name) ==
    CHOOSE i \in 1..Len(Fired) :
        Fired[i].sink = name /\ \A j \in 1..i - 1 : Fired[j].sink # name

(* C7: each feed_byte call fires at most one sink in total, never more     *)
(* than one of on_message, on_bad_crc and the debug/error text sink.       *)
C7_AsClaimed == Len(Fired) <= 1

(* C7, amended: each feed_byte call fires on_message at most once and      *)
(* on_bad_crc at most once, on_bad_crc first when both fire, and may write *)
(* to the text sinks as well: at most three sink calls in all.             *)
C7_SinksPerCall ==
    /\ FiredCount("eomCallback") <= 1
    /\ FiredCount("badCrc") <= 1
    /\ FiredCount("eomCallback") = 1 /\ FiredCount("badCrc") = 1
           => FirstFired("badCrc") < FirstFired("eomCallback")
    /\ Len(Fired) <= 3

\* One call asked on_bad_crc, reported the frame and wrote a debug line.
C7_Witness ==
    /\ Len(Fired) = 3
    /\ FiredCount("badCrc") = 1
    /\ FiredCount("eomCallback") = 1
    /\ FiredCount("printDebug") = 1

---------------------------------------------------------------------------
(* C8: after every feed_byte call the committed length satisfies           *)
(* 0 <= length <= B, where B is the buffer capacity of the session.        *)
C8_LengthWithinBuffer == 0 <= Length /\ Length <= Capacity

\* A candidate has filled the buffer to its last byte.
C8_Witness == pos > 0 /\ Length = Capacity

---------------------------------------------------------------------------
(* C9: if a byte arrives while the in-progress frame already fills the     *)
(* buffer, the dispatcher writes to the error sink, discards the frame and *)
(* transitions to scanning; the byte is not silently dropped while the     *)
(* session stays locked on the over-long frame.                            *)
C9_AsClaimed ==
    [][~Scanning /\ Length = Capacity => FiredCount("printError")' >= 1 /\ parse'.offered]_vars

---------------------------------------------------------------------------
\* Segments that end where the machine must reject whatever byte comes next
\* (the first byte of a frame: AA, "$", B5 or D3): a third sync byte that is
\* not 18, the 20th header byte completing a header whose length field is not
\* 0x14, a checksum character that is not a hex digit, a sentence body with
\* less than the required headroom, a candidate that has filled the buffer.
(* C10: whenever a protocol machine rejects a byte for a framing failure,  *)
(* the session returns to scanning and that same byte is offered to every  *)
(* registered preamble before the next byte is consumed, so a valid frame  *)
(* that starts at the rejected byte is detected.                           *)
C10_AsClaimed ==
    /\ segs[1] \in {"FalseSync", "BadHeader19", "NmeaNoHex", "NmeaTooLong",
                    "LongFrame"}
    /\ Len(segs) >= 2
    /\ pos >= SegStart(2)
    => SegStart(2) \in offers

---------------------------------------------------------------------------
(* C11: a byte that is offered to the preambles is offered to the entries  *)
(* of the parser table in ascending index order; the entry of lowest index *)
(* that accepts it becomes the active protocol, the state that entry set   *)
(* is the session's state, and no entry listed after it is consulted; if   *)
(* no entry accepts the byte, every entry was consulted and the session is *)
(* in the scanning state.                                                  *)
C11_LowestAcceptingEntryWins ==
    (draft \in {"mmp", "semp"} /\ parse.offered) =>
        LET data == input[pos]
            count == IF draft = "mmp" THEN MMP_PARSER_COUNT ELSE parse.parsers_count
            entry(i) == IF draft = "mmp"
                        THEN mmpCallPreamble(mmp_parserTable[i + 1], parse, data)
                        ELSE sempCallPreamble(semp_parsersTable[i + 1], parse, data)
            accepting == {i \in 0..(count - 1) : entry(i).ret}
            active == IF draft = "mmp" THEN parse.type ELSE parse.parser_type
        IN  IF accepting = {}
            THEN /\ parse.consulted = [i \in 1..count |-> i - 1]
                 /\ Scanning
            ELSE LET lowest == CHOOSE i \in accepting : \A j \in accepting : i <= j
                 IN  /\ parse.consulted = [i \in 1..(lowest + 1) |-> i - 1]
                     /\ active = lowest
                     /\ parse.state = entry(lowest).state

\* The NMEA entry (index 1) accepted a '$' after the entry before it had
\* refused it; the u-blox and RTCM entries were not asked.
C11_Witness ==
    /\ draft = "mmp"
    /\ parse.offered
    /\ input[pos] = 36
    /\ parse.consulted = <<0, 1>>
    /\ parse.type = MMP_PROTOCOL_NMEA
    /\ parse.state = "mmpNmeaFindFirstComma"

---------------------------------------------------------------------------
(* C12: with the BT/SEMP entry registered before the Unicore binary entry, *)
(* on a stream that begins AA 44 12 the BT/SEMP machine accepts AA and 44  *)
(* and retreats on 12; the 12 is offered to every registered preamble and  *)
(* accepted by none, the session is scanning after it, and a valid frame   *)
(* that follows is reported.                                               *)
C12_AsClaimed ==
    (draft = "semp" /\ segs[1] = "UnicoreSync") =>
        /\ pos = 1 => parse.state = "sempCustomSync2" /\ parse.parser_type = 0
        /\ pos = 2 => parse.state = "sempCustomSync3" /\ parse.parser_type = 0
        /\ pos = 3 => /\ parse.offered
                      /\ parse.consulted = <<0, 1>>
                      /\ ~parse.ret
                      /\ Scanning
        /\ (Done /\ Len(segs) >= 2 /\ ValidSeg(2)) => Reported(2)

---------------------------------------------------------------------------
(* C13: a call of the buffer entry point consumes every byte of the buffer *)
(* it is given, whatever the byte entry point returns for them, and so     *)
(* leaves the session where feeding those bytes one by one leaves it.      *)
C13_AsClaimed ==
    [][(MmpProcessBuffer \/ SingleSempProcessBuffer) =>
           \/ pos' = Len(input)
           \/ pos' = pos + MaxChunk]_vars

---------------------------------------------------------------------------
(* C14: when a badCrc callback is configured it is called exactly once for *)
(* a completely received frame that fails its integrity check, whatever    *)
(* the protocol (a u-blox frame with a wrong CK_A included), and never for *)
(* a frame that passes.  The frame is the first segment of the stream and  *)
(* a further segment follows it.                                           *)
C14_AsClaimed ==
    (parse.badCrc /\ Done /\ Len(segs) >= 2) =>
        LET asked == SelectSeq(log, LAMBDA e : /\ IsBadCrc(e)
                                               /\ e.at <= SegEnd(1) + 1)
        IN  /\ segs[1] \in {"LedFrameBadCrc", "NmeaBadSum", "UbxBadA", "UbxBadB"}
                   => Len(asked) = 1
            /\ ValidSeg(1) => Len(asked) = 0

---------------------------------------------------------------------------
(* C15: whenever the session is in the scanning state, the processing of   *)
(* the next byte is what it would be with length = 0, crc = 0 and no       *)
(* active protocol: the state, length, crc, active protocol and return     *)
(* value it leaves and the sinks it calls do not depend on what an earlier *)
(* candidate left in those three fields.                                   *)
C15_AsClaimed ==
    Scanning =>
        \A data \in {\hAA, \h24, \hB5, \hD3, \h00} :
            LET reset == CASE draft = "mmp" ->
                                 [Armed(FALSE) EXCEPT !.length = 0,
                                                      !.crc = U32Zero,
                                                      !.type = MMP_PROTOCOL_COUNT]
                           [] draft = "semp" ->
                                 [Armed(FALSE) EXCEPT !.msg_length = 0,
                                                      !.crc = U32Zero,
                                                      !.parser_type = parse.parsers_count]
                           [] draft = "bt" ->
                                 [Armed(FALSE) EXCEPT !.length = 0,
                                                      !.crc = U32Zero]
                step(p) == CASE draft = "mmp" -> mmpProcessByte(p, data)
                             [] draft = "semp" -> sempParseNextByte(p, data)
                             [] draft = "bt" -> single_sempProcessByte(p, data)
                seen(p) == <<p.state, p.crc, p.ret, p.sinks, p.consulted,
                             IF draft = "semp" THEN p.msg_length ELSE p.length,
                             CASE draft = "mmp" -> p.type
                               [] draft = "semp" -> p.parser_type
                               [] draft = "bt" -> 0>>
            IN  seen(step(Armed(FALSE))) = seen(step(reset))

---------------------------------------------------------------------------
(* C16: at every byte boundary at which the state is not the scanning      *)
(* state, the active protocol is the parser-table index of the protocol    *)
(* whose machine that state belongs to.  (The drafts with a parser table.) *)
C16_ActiveProtocolOwnsState ==
    (draft \in {"mmp", "semp"} /\ ~Scanning) =>
        LET owner ==
                CASE parse.state \in {"mmpSempSync2", "mmpSempSync3",
                                      "mmpSempReadHeader", "mmpSempReadData",
                                      "mmpSempReadCrc"} -> "mmpSempPreamble"
                  [] parse.state \in {"mmpNmeaFindFirstComma", "mmpNmeaFindAsterisk",
                                      "mmpNmeaChecksumByte1", "mmpNmeaChecksumByte2",
                                      "mmpNmeaLineTermination"} -> "mmpNmeaPreamble"
                  [] parse.state \in {"mmpUbloxSync2", "mmpUbloxReadClass",
                                      "mmpUbloxReadMessageId", "mmpUbloxReadLength",
                                      "mmpUbloxReadData", "mmpUbloxChecksumA",
                                      "mmpUbloxChecksumB"} -> "mmpUbloxPreamble"
                  [] parse.state \in {"sempCustomSync2", "sempCustomSync3",
                                      "sempCustomReadHeader", "sempCustomReadData",
                                      "sempCustomReadCrc"} -> "sempCustomPreamble"
                  [] OTHER -> "none"
            table == IF draft = "mmp" THEN mmp_parserTable ELSE semp_parsersTable
            active == IF draft = "mmp" THEN parse.type ELSE parse.parser_type
        IN  /\ active \in 0..(Len(table) - 1)
            /\ table[active + 1] = owner

\* A u-blox frame is being read and the active protocol is the u-blox entry.
C16_Witness ==
    /\ draft = "mmp"
    /\ parse.state = "mmpUbloxReadData"
    /\ parse.type = MMP_PROTOCOL_UBLOX
    /\ pos > 6

---------------------------------------------------------------------------
(* C17: at every byte boundary at which the session is in the scanning     *)
(* state (after creation, after noise, after a frame was reported or       *)
(* discarded) the active-protocol query answers "none".                    *)
C17_AsClaimed ==
    Scanning =>
        CASE draft = "mmp" -> mmpGetActiveProtocol(parse) = MMP_PROTOCOL_COUNT
          [] draft = "semp" -> parse.parser_type = parse.parsers_count
          [] draft = "bt" -> TRUE

---------------------------------------------------------------------------
---------------------------------------------------------------------------
---------------------------------------------------------------------------
(* C20: a BT/SEMP frame (AA 44 18 14, sixteen more header bytes declaring  *)
(* a message length n, n payload bytes and the CRC-32 of all that, low     *)
(* byte first) fed to a scanning session whose buffer can hold it causes   *)
(* exactly one on_message call, for protocol BT/SEMP, with the 24 + n      *)
(* bytes of the frame; the 26-byte LED frame is reported once with length  *)
(* 26.  The frame is the first segment of the stream.                      *)
C20_AsClaimed ==
    (/\ IsBtFrame(SegBytes(1))
     /\ Len(SegBytes(1)) <= Capacity
     /\ pos >= SegEnd(1)) =>
        LET frame == SegBytes(1)
            n == frame[13] + 256 * frame[14]
            reports == SelectSeq(log, LAMBDA e : IsEom(e) /\ e.at <= SegEnd(1))
        IN  /\ Len(frame) = 24 + n
            /\ Len(reports) = 1
            /\ reports[1].at = SegEnd(1)
            /\ reports[1].msg = frame
            /\ ProtocolOf(reports[1].type) = "BT"
            /\ segs[1] = "LedFrame" => Len(reports[1].msg) = 26
---------------------------------------------------------------------------
(* C21: an NMEA sentence "$" body "*" h1 h2 CR LF whose first byte was     *)
(* offered to the preambles, and which on_bad_crc did not rescue (it is    *)
(* not configured, or it answered true: still bad), is reported through    *)
(* on_message, once and as the NMEA protocol, if and only if the value of  *)
(* the two checksum digits equals the XOR of the bytes between "$" and     *)
(* "*"; a sentence whose digits differ is counted and logged as a checksum *)
(* error by the call that consumes its CR and is not reported.             *)
C21_NmeaChecksumDecides ==
    draft = "mmp" =>
        \A k \in 1..Len(segs) :
            LET after == Flatten(SubSeq(segs, k + 1, Len(segs)), Capacity)
                last == Len(input) - Len(after)
            IN  (/\ segs[k] \in {"NmeaSentence", "NmeaBadSum", "NmeaFill"}
                 /\ pos >= last - 1) =>
                    \A frame \in {SegBytes(k)} :
                        LET n == Len(frame)
                            first == last - n + 1
                            digits == 16 * mmpAsciiToNibble(frame[n - 3])
                                      + mmpAsciiToNibble(frame[n - 2])
                            matches == digits = XorRange(frame, 2, n - 5)
                            during(e) == first < e.at /\ e.at <= last
                            eoms == SelectSeq(log, LAMBDA e : IsEom(e) /\ during(e))
                            rescued == \E i \in 1..Len(log) :
                                           /\ IsBadCrc(log[i])
                                           /\ during(log[i])
                                           /\ ~log[i].result
                        IN  (first \in offers /\ ~rescued) =>
                                /\ matches <=> Len(eoms) > 0
                                /\ matches => /\ Len(eoms) = 1
                                              /\ eoms[1].at = last - 1
                                              /\ eoms[1].msg = frame
                                              /\ eoms[1].type = MMP_PROTOCOL_NMEA
                                /\ (~matches /\ pos = last - 1) =>
                                       /\ parse.crcErrors[MMP_PROTOCOL_NMEA] >= 1
                                       /\ FiredCount("printDebug") = 1
                                       /\ parse.badCrc => FiredCount("badCrc") = 1

\* A good sentence was reported and the sentence after it, whose digits are
\* FF, was counted as a checksum error and not reported.
C21_Witness ==
    /\ draft = "mmp"
    /\ segs = <<"NmeaSentence", "NmeaBadSum">>
    /\ pos = SegEnd(2) - 1
    /\ Len(Eoms) = 1
    /\ Eoms[1].msg = NmeaSentence
    /\ parse.crcErrors[MMP_PROTOCOL_NMEA] = 1
    /\ FiredCount("eomCallback") = 0
---------------------------------------------------------------------------
---------------------------------------------------------------------------
(* C23: every on_message call carries the registry index of the protocol   *)
(* whose machine completed the frame: the index of the entry whose         *)
(* preamble accepted the first byte of the frame (index 0 for the one      *)
(* machine of the single-protocol parser).                                 *)
C23_AsClaimed ==
    \A i \in 1..Len(log) :
        IsEom(log[i]) =>
            LET data == log[i].msg[1]
                accepting ==
                    CASE draft = "mmp" ->
                             {j \in 0..(MMP_PARSER_COUNT - 1) :
                                 mmpCallPreamble(mmp_parserTable[j + 1], parse, data).ret}
                      [] draft = "semp" ->
                             {j \in 0..(parse.parsers_count - 1) :
                                 sempCallPreamble(semp_parsersTable[j + 1], parse, data).ret}
                      [] draft = "bt" -> {0}
            IN  /\ accepting # {}
                /\ log[i].type = CHOOSE j \in accepting : \A m \in accepting : j <= m

(* C23, amended: in the two dispatchers that have a parser table every     *)
(* on_message call carries the index of the table entry whose preamble     *)
(* accepted the first byte of the frame; the single-protocol parser has no *)
(* table and its on_message call carries the messageType field of the      *)
(* frame's header (byte 17 of the frame).                                  *)
C23_TypeOfReport ==
    \A i \in 1..Len(log) :
        IsEom(log[i]) =>
            LET data == log[i].msg[1]
                accepting ==
                    CASE draft = "mmp" ->
                             {j \in 0..(MMP_PARSER_COUNT - 1) :
                                 mmpCallPreamble(mmp_parserTable[j + 1], parse, data).ret}
                      [] draft = "semp" ->
                             {j \in 0..(parse.parsers_count - 1) :
                                 sempCallPreamble(semp_parsersTable[j + 1], parse, data).ret}
                      [] draft = "bt" -> {}
            IN  IF draft = "bt"
                THEN log[i].type = log[i].msg[18]
                ELSE /\ accepting # {}
                     /\ log[i].type = CHOOSE j \in accepting : \A m \in accepting : j <= m

\* The single-protocol parser reported a frame whose header carries message
\* type 3, and handed 3 to on_message.
C23_Witness ==
    /\ draft = "bt"
    /\ Len(Eoms) = 1
    /\ Eoms[1].msg = EmptyFrame
    /\ Eoms[1].msg[18] = 3
    /\ Eoms[1].type = 3

\* C24: two sessions with their own buffers are independent: in any
\* interleaving of byte calls on the two, each session makes exactly the
\* reports it makes when its own stream is fed to it alone.
C24_AsClaimed ==
    twin # <<>> => log = twin.aloneLog[1] /\ twin.log = twin.aloneLog[2]

\* C25: every store the framer makes into the session buffer is at an index
\* below the buffer capacity, the CR, LF and NUL appended to an accepted
\* NMEA sentence of the greatest admitted length included.
C25_AsClaimed ==
    draft = "mmp" => parse.oob = 0

\* C26: no input keeps the session locked on one candidate frame: from any
\* state, within at most B further bytes (B the buffer capacity) the session
\* has passed through scanning, i.e. one of those bytes was offered to the
\* preambles.
C26_AsClaimed ==
    \A from \in 0..(pos - Capacity) :
        \E k \in offers : from < k /\ k <= from + Capacity

\* C27: a BT frame whose header declares message_length 0 goes from its
\* 20th byte straight to the CRC phase: the next 4 bytes are taken as the
\* CRC, the frame is completed at its 24th byte, and the 16-bit count of
\* remaining bytes never wraps.
C27_AsClaimed ==
    (segs[1] = "EmptyFrame" /\ pos >= MMP_SEMP_HEADER_SIZE) =>
        LET remaining == CASE draft = "mmp" -> parse.scratchPad.semp.bytesRemaining
                           [] draft = "semp" -> parse.scratchPad.custom.bytesRemaining
                           [] draft = "bt" -> parse.scratchPad.bluetooth.bytesRemaining
            end == Len(EmptyFrame)
        IN  /\ pos = MMP_SEMP_HEADER_SIZE =>
                   parse.state \in {"mmpSempReadCrc", "sempCustomReadCrc",
                                    "sempBluetoothReadCrc"}
            /\ pos <= end => remaining = end - pos
            /\ pos = end => Scanning
            /\ pos >= end =>
                   /\ Len(log) >= 1
                   /\ log[1].at = end
                   /\ log[1].msg = EmptyFrame

\* C28: a candidate BT frame whose header_len byte (the 4th) is not 0x14 is
\* never reported, neither by on_message nor by on_bad_crc: when its 20-byte
\* header has been read the machine logs and is back in scanning, with no
\* payload byte consumed for the candidate.
C28_AsClaimed ==
    (segs[1] = "BadHeader19" /\ pos >= MMP_SEMP_HEADER_SIZE) =>
        /\ pos = MMP_SEMP_HEADER_SIZE =>
               Scanning /\ FiredCount("printDebug") = 1
        /\ pos > MMP_SEMP_HEADER_SIZE => MMP_SEMP_HEADER_SIZE + 1 \in offers
        /\ \A i \in 1..Len(log) : log[i].at > MMP_SEMP_HEADER_SIZE + 1

\* C29: once the second UBX length byte has been read, a declared payload
\* length above buffer_length - length - 2 sends the machine back to
\* scanning: it is never in the payload state with more bytes to come than
\* the buffer can still hold together with the two checksum bytes.
C29_AsClaimed ==
    (draft = "mmp" /\ parse.state = "mmpUbloxReadData") =>
        parse.scratchPad.ublox.bytesRemaining <= parse.bufferLength - parse.length - 2

\* C30: with RTCM registered, a byte D3 offered in scanning locks the
\* session on RTCM, and a frame D3, two length bytes, payload and three CRC
\* bytes is reported by on_message exactly once if and only if the CRC bytes
\* equal CRC24Q of the bytes before them.
C30_AsClaimed ==
    (draft = "mmp" /\ segs[1] = "RtcmFrame" /\ pos >= 1) =>
        LET end == Len(RtcmFrame)
            reports == SelectSeq(log, LAMBDA e : IsEom(e) /\ e.at <= end)
        IN  /\ pos = 1 => ~Scanning /\ parse.type = MMP_PROTOCOL_RTCM
            /\ pos >= end =>
                   IF IsRtcmFrame(RtcmFrame)
                   THEN /\ Len(reports) = 1
                        /\ reports[1].at = end
                        /\ reports[1].msg = RtcmFrame
                        /\ reports[1].type = MMP_PROTOCOL_RTCM
                   ELSE reports = <<>>

\* C31: in the RTCM3 machine, when the byte that follows the preamble D3
\* has any of its high 6 bits set, the machine retreats to scanning, and no
\* frame is reported for that candidate.
C31_AsClaimed ==
    (draft = "mp" /\ segs[1] = "RtcmReserved" /\ pos >= 2) =>
        /\ pos = 2 => (parse.state = "mpFirstByte" \/ 2 \in offers)
        /\ \A i \in 1..Len(log) : log[i].at > Len(Bytes("RtcmReserved", Capacity))

\* C32: the number of payload bytes the RTCM3 machine consumes for a frame
\* is ((length_hi & 3) << 8) | length_lo of that frame's own two length
\* bytes, whatever the session processed before: once D3 and the two length
\* bytes of a candidate have been read, the count of payload bytes still to
\* come is that value (and the machine is in the payload state), unless the
\* value exceeds the buffer headroom and the machine has retreated.
C32_AsClaimed ==
    \A k \in 1..Len(segs) :
        (/\ draft = "mp"
         /\ segs[k] \in {"RtcmFrame", "RtcmReserved"}
         /\ pos = Len(input) - Len(Flatten(SubSeq(segs, k, Len(segs)), Capacity)) + 3
         /\ (pos - 2) \in offers
         /\ input[pos - 1] \div 4 = 0) =>
            LET declared == (input[pos - 1] % 4) * 256 + input[pos]
            IN  IF declared > parse.bufferLength - 3 - 3
                THEN parse.state = "mpFirstByte" \/ pos \in offers
                ELSE /\ parse.state = "mpRtcmReadPayload"
                     /\ parse.scratchPad.rtcm.bytesRemaining = declared

\* C33: for a Unicore binary frame (sync AA 44 12, header length field
\* 0x1C) the machine consumes the 28 bytes of the header before it counts
\* payload bytes: a frame declaring n payload bytes is completed, and
\* reported, after exactly 28 + n + 4 bytes.
C33_AsClaimed ==
    (draft = "mp" /\ segs[1] = "UniBinFrame" /\ pos >= 4) =>
        LET frame == Bytes("UniBinFrame", Capacity)
            n == 2
            reports == SelectSeq(log, LAMBDA e : e.at <= Len(frame))
        IN  /\ pos < 28 => parse.state = "mpUnicoreBinReadHeader"
            /\ (pos >= 28 /\ pos < 28 + n) =>
                   /\ parse.state = "mpUnicoreBinReadPayload"
                   /\ parse.scratchPad.unicore.bytesRemaining = 28 + n - pos
            /\ pos < 28 + n + 4 => reports = <<>>
            /\ pos >= 28 + n + 4 =>
                   /\ Len(reports) = 1
                   /\ IsEom(reports[1])
                   /\ reports[1].at = 28 + n + 4
                   /\ reports[1].msg = frame

\* C34: in the Unicore hash machine the sentence name selects the check: a
\* name containing MODE is followed by 2 hex digits, the XOR-8 of the body;
\* any other name is followed by 8 hex digits, the CRC32 of the body.  A
\* sentence is accepted only under the check its name selects: "#MODE,1*1E"
\* and "#VER,1*1C4E032E" are reported whole by on_message, and "#VER,1*5C",
\* whose two digits are the XOR-8, is not.
C34_AsClaimed ==
    (draft = "mp" /\ segs[1] \in {"HashMode", "HashVersion", "HashVersionXor"}
                  /\ pos >= Len(Bytes(segs[1], Capacity))) =>
        LET frame == Bytes(segs[1], Capacity)
            reports == SelectSeq(log, LAMBDA e : e.at <= Len(frame))
        IN  IF segs[1] = "HashVersionXor"
            THEN \A i \in 1..Len(reports) : ~IsEom(reports[i])
            ELSE /\ Len(reports) = 1
                 /\ IsEom(reports[1])
                 /\ SubSeq(reports[1].msg, 1, Len(frame) - 2)
                        = SubSeq(frame, 1, Len(frame) - 2)

\* C35: the NMEA sentence_name scratch field never holds more than 15
\* characters and a terminating NUL: no index of 16 or more is ever written,
\* and a 16th name character before the first comma makes the machine
\* retreat (the character is offered to the registry).
C35_SentenceNameBounded ==
    draft = "mmp" =>
        /\ parse.scratchPad.nmea.sentenceNameLength <= MMP_MAX_SENTENCE_NAME - 1
        /\ DOMAIN parse.scratchPad.nmea.sentenceName = 1..MMP_MAX_SENTENCE_NAME
        /\ (segs[1] = "NmeaLongName" /\ pos = Len(NmeaLongName)) =>
               (Scanning /\ pos \in offers)

C35_Witness ==
    /\ draft = "mmp"
    /\ segs[1] = "NmeaLongName"
    /\ pos = Len(NmeaLongName)
    /\ parse.scratchPad.nmea.sentenceNameLength = MMP_MAX_SENTENCE_NAME - 1
    /\ \A i \in 1..(MMP_MAX_SENTENCE_NAME - 1) :
           parse.scratchPad.nmea.sentenceName[i] = NmeaLongName[i + 1]
    /\ FiredCount("printDebug") = 1

\* C36: in the NMEA checksum_1 and checksum_2 states a byte is accepted
\* (the machine moves on to the next state) if and only if it is one of the
\* 22 ASCII hex digits 0-9, A-F, a-f; any other byte makes the machine
\* retreat.
C36_AsClaimed ==
    [][(draft = "mmp"
        /\ parse.state \in {"mmpNmeaChecksumByte1", "mmpNmeaChecksumByte2"}) =>
           ((input[pos + 1] \in (48..57) \cup (65..70) \cup (97..102))
              <=> parse'.state = (IF parse.state = "mmpNmeaChecksumByte1"
                                  THEN "mmpNmeaChecksumByte2"
                                  ELSE "mmpNmeaLineTermination"))]_vars

C38_AsClaimed ==
    draft = "mmp" =>
        \A i \in 1..Len(parse.sinks) :
            (parse.sinks[i].sink = "eomCallback"
             /\ parse.sinks[i].type = MMP_PROTOCOL_NMEA) =>
                LET msg == parse.sinks[i].msg
                    n == Len(msg)
                IN  /\ n >= 6
                    /\ msg[1] = 36
                    /\ msg[n - 4] = 42
                    /\ <<msg[n - 1], msg[n]>> = <<13, 10>>
                    /\ SubSeq(msg, 1, n - 2) = SubSeq(input, pos - (n - 2), pos - 1)
                    /\ n < parse.bufferLength
                    /\ parse.buffer[n + 1] = 0

C40_AsClaimed ==
    draft = "mmp" => parse.totalBytes = pos
====
